---- MODULE Spec2Model ----
(***************************************************************************)
(* The GoFetch client, in six components that share no state.              *)
(*                                                                         *)
(* Spec: the run lifecycle, ActorClient.call/start (src/gofetch/actor.py)  *)
(* and RunClient.get/wait_for_finish/abort (src/gofetch/run.py), against a *)
(* server whose job moves pending -> running -> terminal, over a transport *)
(* that answers each request with a job record or a typed error.           *)
(* SpecDataset: DatasetClient.iterate_items/list_items                     *)
(* (src/gofetch/dataset.py) paging through a fixed result set.             *)
(* SpecWebhook: the event tables of src/gofetch/webhook.py and the webhook *)
(* CRUD of src/gofetch/webhook_client.py against a server that stores      *)
(* registrations.                                                          *)
(* SpecTransport: HTTPClient._request and _handle_error_response           *)
(* (src/gofetch/http.py).                                                  *)
(* SpecModes: the blocking and the cooperative variant of a wait           *)
(* (ActorClient.call and AsyncActorClient.call, RunClient.wait_for_finish  *)
(* and AsyncRunClient.wait_for_finish), each translated on its own, run    *)
(* side by side against the same server answers.                           *)
(* SpecTranslations: resolve_actor_url (src/gofetch/types.py) and          *)
(* transform_webhook_payload (src/gofetch/webhook.py).                     *)
(* In the other specifications each action stands for both variants: the   *)
(* Async* classes repeat the same statements with await in front of the    *)
(* request and the sleep.                                                  *)
(*                                                                         *)
(* In the run lifecycle time is counted in ticks of 1/64 second: every     *)
(* backoff interval the code can compute (2 * 1.5^k below the cap of 30)   *)
(* is then an integer, so the float arithmetic of the source is reproduced *)
(* exactly.  The delays of the transport are whole seconds.                *)
(***************************************************************************)
EXTENDS Integers, Sequences, FiniteSets, TLC

VARIABLES
    srv,            \* the server's job: [present, id, status, scraper_type]
    op,             \* the client operation in progress
    pc,             \* its position: idle, create, loop (call), poll (run), sleep,
                    \* returned, raised
    self_type,      \* ActorClient._scraper_type
    run_id,         \* RunClient._run_id
    budget,         \* timeout_secs (call) / wait_secs (wait_for_finish); NoLimit = None
    now,            \* the clock, in ticks since the operation was invoked
    start_time,     \* the local start_time of the wait loop
    poll_interval,  \* the local poll_interval of the wait loop
    job,            \* the local job: the last job record received, <<>> before any
    requests,       \* the requests this invocation handed to the transport, in order
    sleeps,         \* the durations this invocation slept, in order
    result,         \* the returned value: <<run>>, or <<>> for None
    exc,            \* the exception raised: <<e>>, or <<>> for none
    invocations     \* how many operations were invoked so far

\* the variables of the run lifecycle
lifecycle == <<srv, op, pc, self_type, run_id, budget, now, start_time, poll_interval,
               job, requests, sleeps, result, exc, invocations>>

VARIABLES
    webhooks,       \* the webhooks argument of start: <<list>>, or <<>> for None
    post_body       \* the json body of the creation POST: <<body>>, <<>> before it

VARIABLES
    rows,           \* server: the result set of the job, a fixed sequence of rows
    page_cap,       \* server: the most rows it serves in one page
    items_key,      \* server: the key of a results page that holds the rows
    d_op,           \* the dataset operation in progress
    d_pc,           \* where that operation stands
    arg_offset,     \* its arguments offset and limit (limit <<>> for None)
    arg_limit,
    current_offset, \* the local current_offset of iterate_items
    yielded,        \* the items the generator has yielded so far
    page_requests,  \* the (offset, limit) of each GET .../results/ made
    d_exc           \* the exception the operation raised, <<>> if none

\* the variables of the dataset reader
dataset == <<rows, page_cap, items_key, d_op, d_pc, arg_offset, arg_limit,
             current_offset, yielded, page_requests, d_exc>>

VARIABLES
    registry,       \* server: the webhooks it stores, in order of registration
    created,        \* server: how many webhooks it has registered on request
    w_op,           \* the last webhook operation
    w_id,           \* the webhook_id of the WebhookClient it was called on
    w_args,         \* its keyword arguments, each <<v>> or <<>> when not given
    w_request,      \* the request it made: method, id, json body and outcome
    w_pc,           \* "returned" or "raised" once an operation has ended
    w_result,       \* the value it returned, <<>> for None
    w_exc           \* the exception it raised, <<>> if none

\* the variables of the webhook clients
webhook_state == <<registry, created, w_op, w_id, w_args, w_request, w_pc, w_result, w_exc>>

VARIABLES
    max_retries,    \* HTTPClient._max_retries
    t_method,       \* the method of the request in progress
    t_pc,           \* where _request stands
    attempt,        \* the loop variable of _request
    retry_delay,    \* its local retry_delay, in seconds
    last_exception, \* its local last_exception, <<>> for None
    attempts,       \* what each attempt met: a response or a network failure
    t_sleeps,       \* the durations passed to time.sleep, in seconds
    t_response,     \* the response of the last attempt, <<>> if it met none
    t_result,       \* the value _request returned, <<>> before
    t_exc           \* the exception _request raised, <<>> if none

\* the variables of the transport
transport == <<max_retries, t_method, t_pc, attempt, retry_delay, last_exception,
               attempts, t_sleeps, t_response, t_result, t_exc>>

VARIABLES
    m_class,        \* the client class whose two variants run: "actor" or "run"
    m_budget,       \* the wait budget both are called with; NoLimit = None
    m_latency,      \* how long each request takes
    m_script,       \* server: its answers to the first, second, ... request
    sync_ctl,       \* the blocking variant: its position, locals and traces
    async_ctl       \* the cooperative variant: the same

\* the variables of the two variants run side by side
modes == <<m_class, m_budget, m_latency, m_script, sync_ctl, async_ctl>>

VARIABLES
    u_op,           \* the last translation called: "actor", "transform_webhook_payload"
    u_arg,          \* its argument: an actor identifier, or a webhook payload
    u_result        \* what it returned

\* the variables of the translations
translations == <<u_op, u_arg, u_result>>

\* the variables of the other components, which the run lifecycle leaves alone
outside == <<dataset, webhook_state, transport, modes, translations>>

vars == <<lifecycle, webhooks, post_body, outside>>

----------------------------------------------------------------------------
(* Bounds of the model *)

\* GET requests one wait may issue before the model stops following it
MaxPolls == 10
\* operations invoked one after the other on the same server job
MaxInvocations == 2

TicksPerSecond == 2 ^ 6

\* None as a wait budget
NoLimit == 0 - 1

\* sleeps one variant may take before the model stops following it
MaxModeSleeps == 3
\* the longest script of server answers; its last answer repeats
MaxScript == 3

\* wait budgets a caller passes: 0, 5 s, the 1 h default of call, None
WaitBudgets == {0, 5 * TicksPerSecond, 3600 * TicksPerSecond, NoLimit}

\* how long one transport request takes
Latencies == {0, TicksPerSecond}

\* the ids a caller looks runs up by, and the ids the server gives its jobs
JobIds == {"job-1", "job-2"}
ServerJobIds == {"job-1"}
ScraperTypes == {"instagram"}

----------------------------------------------------------------------------
(* constants.py *)

DEFAULT_POLL_INTERVAL == 2 * TicksPerSecond
MAX_POLL_INTERVAL == 30 * TicksPerSecond
\* POLL_BACKOFF_FACTOR = 1.5, as the fraction 3/2
POLL_BACKOFF_FACTOR_NUM == 3
POLL_BACKOFF_FACTOR_DEN == 2

\* retry configuration of the transport, delays in seconds
DEFAULT_MAX_RETRIES == 3
DEFAULT_RETRY_DELAY == 1
RETRY_BACKOFF_FACTOR == 2

Min(a, b) == IF a <= b THEN a ELSE b

\* the six statuses of the server vocabulary (types.py JobStatus)
JobStatus == {"pending", "running", "completed", "failed", "cancelled", "timed_out"}
\* a status string outside the vocabulary
UnknownStatus == "queued"
ServerStatuses == JobStatus \cup {UnknownStatus}
\* the statuses after which the server changes the job no more
ServerTerminal == {"completed", "failed", "cancelled", "timed_out"}
\* the statuses a creation response carries
CreatedStatuses == {"pending", UnknownStatus, "running"}
\* how far a job has come: the server only moves it forward
Progress(status) ==
    CASE status = "pending" -> 0
      [] status = UnknownStatus -> 1
      [] status = "running" -> 2
      [] OTHER -> 3

\* dict.get(key, default) on a table given as a function
DictGet(d, k, default) == IF k \in DOMAIN d THEN d[k] ELSE default

GOFETCH_TO_APIFY_STATUS ==
    [s \in {"pending", "running", "completed", "failed", "cancelled"} |->
        CASE s = "pending" -> "READY"
          [] s = "running" -> "RUNNING"
          [] s = "completed" -> "SUCCEEDED"
          [] s = "failed" -> "FAILED"
          [] s = "cancelled" -> "ABORTED"]

\* JobStatus.to_apify_status (types.py): its own table, default RUNNING
to_apify_status(s) ==
    DictGet([x \in JobStatus |->
                CASE x = "pending" -> "READY"
                  [] x = "running" -> "RUNNING"
                  [] x = "completed" -> "SUCCEEDED"
                  [] x = "failed" -> "FAILED"
                  [] x = "cancelled" -> "ABORTED"
                  [] x = "timed_out" -> "TIMED-OUT"], s, "RUNNING")

----------------------------------------------------------------------------
(* Optional values: None is <<>>, a value v is <<v>> *)

None == <<>>
Some(v) == <<v>>

\* the webhooks argument of start: None, or a list of webhook configurations
WebhooksArgs ==
    { None,
      Some(<< [request_url |-> "https://a.example/hook",
               event_types |-> <<"ACTOR.RUN.SUCCEEDED", "ACTOR.RUN.FAILED">>] >>),
      Some(<< [request_url |-> "https://a.example/hook",
               event_types |-> <<"ACTOR.RUN.TIMED_OUT">>],
              [request_url |-> "https://b.example/hook",
               event_types |-> <<"CUSTOM.EVENT", "ACTOR.RUN.SUCCEEDED">>] >>) }

----------------------------------------------------------------------------
(* Records *)

\* a job record as the server serialises it
JobRecord(id, status, scraper_type) ==
    [id |-> id, status |-> status, scraper_type |-> scraper_type]

\* what the transport hands back for one request: a job record, or a typed error
\* (exceptions.py: APIError and its subclasses, by status code)
ErrorCodes == {0, 401, 404, 500}

ErrorType(code) ==
    CASE code = 401 -> "AuthenticationError"
      [] code = 429 -> "RateLimitError"
      [] OTHER -> "APIError"

TransportError(code) == [type |-> ErrorType(code), status_code |-> code]

\* one entry of the request trace
Request(method, id, ok, status, code) ==
    [method |-> method, id |-> id, ok |-> ok, status |-> status, code |-> code]

OkRequest(method, j) == Request(method, j.id, TRUE, j.status, 200)
FailedRequest(method, id, code) == Request(method, id, FALSE, "", code)

----------------------------------------------------------------------------
(* actor.py *)

\* the tuple the wait loop of actor.py tests the status against
ActorTerminalStatuses == {"completed", "failed", "cancelled"}

\* mutant: every status that is not known to be in progress ends the wait
ActorIsTerminalByExclusion(status) == status \notin {"pending", "running"}

ActorIsTerminal(status) == status \in ActorTerminalStatuses

\* mutant: the backoff without its cap
ActorNextPollIntervalUncapped(interval) ==
    (interval * POLL_BACKOFF_FACTOR_NUM) \div POLL_BACKOFF_FACTOR_DEN

\* poll_interval = min(poll_interval * POLL_BACKOFF_FACTOR, MAX_POLL_INTERVAL)
ActorNextPollInterval(interval) ==
    Min((interval * POLL_BACKOFF_FACTOR_NUM) \div POLL_BACKOFF_FACTOR_DEN,
        MAX_POLL_INTERVAL)

\* while time.time() - start_time < timeout_secs
ActorWithinBudget(elapsed, timeout_secs) == elapsed < timeout_secs

\* mutant: exitCode 0 on every Run that is not running
format_as_apify_run_exit_zero(j, scraper_type) ==
    LET status == DictGet(GOFETCH_TO_APIFY_STATUS, j.status, "RUNNING")
    IN  [id |-> j.id,
         actId |-> <<"gofetch", scraper_type>>,
         status |-> status,
         defaultDatasetId |-> j.id,
         exitCode |-> IF status # "RUNNING" THEN Some(0) ELSE None,
         gofetch_job |-> j]

\* ActorClient._format_as_apify_run; actId is the pair <<prefix, job type>>
format_as_apify_run(j, scraper_type) ==
    LET status == DictGet(GOFETCH_TO_APIFY_STATUS, j.status, "RUNNING")
    IN  [id |-> j.id,
         actId |-> <<"gofetch", scraper_type>>,
         status |-> status,
         defaultDatasetId |-> j.id,
         exitCode |-> IF status = "SUCCEEDED" THEN Some(0) ELSE None,
         gofetch_job |-> j]

----------------------------------------------------------------------------
(* The helpers run.py imports from gofetch.actor *)

is_terminal(status) == status \in {"completed", "failed", "cancelled", "timed_out"}

next_poll_interval(interval) ==
    Min((interval * POLL_BACKOFF_FACTOR_NUM) \div POLL_BACKOFF_FACTOR_DEN,
        MAX_POLL_INTERVAL)

format_job_as_apify_run(j, scraper_type) ==
    LET status ==
            CASE j.status = "pending" -> "READY"
              [] j.status = "running" -> "RUNNING"
              [] j.status = "completed" -> "SUCCEEDED"
              [] j.status = "failed" -> "FAILED"
              [] j.status = "cancelled" -> "ABORTED"
              [] j.status = "timed_out" -> "TIMED-OUT"
              [] OTHER -> "RUNNING"
    IN  [id |-> j.id,
         actId |-> <<"gofetch", scraper_type>>,
         status |-> status,
         defaultDatasetId |-> j.id,
         exitCode |-> IF status = "SUCCEEDED" THEN Some(0) ELSE None,
         gofetch_job |-> j]

----------------------------------------------------------------------------
(* run.py *)

\* mutant: every 4xx answer is taken for an absent job
IsNotFoundAnyClientError(code) == code \in 400..499

\* except APIError as e: if e.status_code == 404
IsNotFound(code) == code = 404

\* mutant: abort falls back to a lookup on every 4xx answer to the cancel
CancelNotFoundAnyClientError(code) == code \in 400..499

\* abort: except APIError as e: if e.status_code == 404
CancelNotFound(code) == code = 404

\* the server's cancel endpoint: a job that is not terminal becomes cancelled,
\* a terminal job keeps its status
Cancelled(status) == IF status \in {"completed", "failed", "cancelled", "timed_out"}
                     THEN status ELSE "cancelled"

\* mutant: a wait without a limit is taken to be at its deadline at once
DeadlineReachedOrNoLimit(elapsed, wait_secs) == wait_secs = NoLimit \/ elapsed >= wait_secs

\* mutant: the deadline test with > for >=
DeadlineReachedStrict(elapsed, wait_secs) == wait_secs # NoLimit /\ elapsed > wait_secs

\* wait_secs is not None and (time.monotonic() - start_time) >= wait_secs
DeadlineReached(elapsed, wait_secs) == wait_secs # NoLimit /\ elapsed >= wait_secs

----------------------------------------------------------------------------
(* The state machine *)

Ops == {"call", "start", "get", "wait_for_finish", "abort"}

NoServerJob == [present |-> FALSE, id |-> "", status |-> "", scraper_type |-> ""]
ServerJob(id, status, scraper_type) ==
    [present |-> TRUE, id |-> id, status |-> status, scraper_type |-> scraper_type]

NumGets == Len(SelectSeq(requests, LAMBDA r : r.method = "GET"))
NumPosts == Len(SelectSeq(requests, LAMBDA r : r.method = "POST"))

Finished == pc \in {"returned", "raised"}

\* the dataset reader before any operation, over an empty result set
DatasetIdle ==
    /\ rows = <<>>
    /\ page_cap = 1
    /\ items_key = "items"
    /\ d_op = "none"
    /\ d_pc = "idle"
    /\ arg_offset = 0
    /\ arg_limit = None
    /\ current_offset = 0
    /\ yielded = <<>>
    /\ page_requests = <<>>
    /\ d_exc = None

\* the webhook clients before any operation, no webhook on the server
WebhookIdle ==
    /\ registry = <<>>
    /\ created = 0
    /\ w_op = "none"
    /\ w_id = ""
    /\ w_args = [event_types |-> None, request_url |-> None, is_active |-> None]
    /\ w_request = None
    /\ w_pc = "idle"
    /\ w_result = None
    /\ w_exc = None

\* the transport before any request, with the default number of retries
TransportIdle ==
    /\ max_retries = DEFAULT_MAX_RETRIES
    /\ t_method = ""
    /\ t_pc = "idle"
    /\ attempt = 0
    /\ retry_delay = DEFAULT_RETRY_DELAY
    /\ last_exception = None
    /\ attempts = <<>>
    /\ t_sleeps = <<>>
    /\ t_response = None
    /\ t_result = None
    /\ t_exc = None

\* one variant of a wait at position p, before its first request
Ctl(p) ==
    [pc |-> p, now |-> 0, start_time |-> 0, poll_interval |-> DEFAULT_POLL_INTERVAL,
     job |-> None, requests |-> <<>>, sleeps |-> <<>>, result |-> None, exc |-> None]

\* no variant running
ModesIdle ==
    /\ m_class = "none"
    /\ m_budget = 0
    /\ m_latency = 0
    /\ m_script = <<>>
    /\ sync_ctl = Ctl("idle")
    /\ async_ctl = Ctl("idle")

\* no translation called yet
TranslationsIdle ==
    /\ u_op = "none"
    /\ u_arg = ""
    /\ u_result = ""

\* the other components at rest
OutsideIdle ==
    DatasetIdle /\ WebhookIdle /\ TransportIdle /\ ModesIdle /\ TranslationsIdle

\* the run lifecycle before any operation, the server holding any job or none
LifecycleInit ==
    /\ srv \in {NoServerJob} \cup
               {ServerJob(id, st, t) : id \in ServerJobIds, st \in ServerStatuses, t \in ScraperTypes}
    /\ op = "none"
    /\ pc = "idle"
    /\ self_type = ""
    /\ run_id = ""
    /\ budget = 0
    /\ now = 0
    /\ start_time = 0
    /\ poll_interval = DEFAULT_POLL_INTERVAL
    /\ job = None
    /\ requests = <<>>
    /\ sleeps = <<>>
    /\ result = None
    /\ exc = None
    /\ invocations = 0
    /\ webhooks = None
    /\ post_body = None

Init == LifecycleInit /\ OutsideIdle

\* the locals of a fresh invocation
Fresh ==
    /\ now' = 0
    /\ start_time' = 0
    /\ poll_interval' = DEFAULT_POLL_INTERVAL
    /\ job' = None
    /\ requests' = <<>>
    /\ sleeps' = <<>>
    /\ result' = None
    /\ exc' = None
    /\ invocations' = invocations + 1

\* the caller invokes actor.call(run_input, timeout_secs) or actor.start(run_input)
InvokeActor ==
    /\ pc \in {"idle", "returned", "raised"}
    /\ invocations < MaxInvocations
    /\ \E o \in {"call", "start"}, t \in ScraperTypes, b \in WaitBudgets :
        /\ o = "start" => b = 0
        /\ op' = o
        /\ \E w \in WebhooksArgs :
            /\ o = "call" => w = None
            /\ webhooks' = w
        /\ self_type' = t
        /\ run_id' = ""
        /\ budget' = b
    /\ pc' = "create"
    /\ Fresh
    /\ UNCHANGED srv
    /\ post_body' = None
    /\ UNCHANGED outside

\* the caller invokes run.get(), run.wait_for_finish(wait_secs=...) or run.abort()
InvokeRun ==
    /\ pc \in {"idle", "returned", "raised"}
    /\ invocations < MaxInvocations
    /\ \E o \in {"get", "wait_for_finish", "abort"}, id \in JobIds, b \in WaitBudgets :
        /\ o \in {"get", "abort"} => b = 0
        /\ op' = o
        /\ pc' = IF o = "abort" THEN "cancel" ELSE "poll"
        /\ run_id' = id
        /\ self_type' = ""
        /\ webhooks' = None
        /\ budget' = b
    /\ Fresh
    /\ UNCHANGED srv
    /\ post_body' = None
    /\ UNCHANGED outside

\* the server moves the job forward; a terminal job changes no more
ServerAdvance ==
    /\ srv.present
    /\ srv.status \notin ServerTerminal
    /\ \E st \in ServerStatuses :
        /\ Progress(st) > Progress(srv.status)
        /\ srv' = [srv EXCEPT !.status = st]
    /\ UNCHANGED <<op, pc, self_type, run_id, budget, now, start_time, poll_interval,
                   job, requests, sleeps, result, exc, invocations>>
    /\ UNCHANGED <<webhooks, post_body, outside>>

\* whether the server holds job id
Holds(id) == srv.present /\ srv.id = id

\* an exception of the client layer itself (no HTTP status)
ClientError(type) == [type |-> type, status_code |-> 0 - 1]

Raise(e) == pc' = "raised" /\ exc' = Some(e) /\ result' = None
Return(v) == pc' = "returned" /\ result' = v /\ exc' = None

\* _create_job: the json body of POST /api/v1/jobs/create/; the webhooks
\* argument of start is discarded before _create_job is called
CreateBody(scraper_type, hooks) ==
    [scraper_type |-> scraper_type, config |-> "run_input"]

\* mutant: start goes on to wait for completion, as call does
AfterCreateAlwaysWaits(j) ==
    /\ pc' = "loop"
    /\ start_time' = now'
    /\ poll_interval' = DEFAULT_POLL_INTERVAL
    /\ UNCHANGED <<result, exc>>

\* what follows self._create_job(run_input): start returns the formatted
\* creation response at once, call enters _wait_for_completion
AfterCreate(j) ==
    IF op = "start"
    THEN /\ Return(Some(format_as_apify_run(j, self_type)))
         /\ UNCHANGED <<start_time, poll_interval>>
    ELSE /\ pc' = "loop"
         /\ start_time' = now'
         /\ poll_interval' = DEFAULT_POLL_INTERVAL
         /\ UNCHANGED <<result, exc>>

\* mutant: a 404 on creation is swallowed and None returned, as a lookup would
ActorCreateSwallowNotFound ==
    /\ pc = "create"
    /\ op \in {"call", "start"}
    /\ \E lat \in Latencies :
        /\ now' = now + lat
        /\ \/ \E id \in ServerJobIds, st \in CreatedStatuses :
                LET j == JobRecord(id, st, self_type)
                IN  /\ srv' = ServerJob(id, st, self_type)
                    /\ requests' = Append(requests, OkRequest("POST", j))
                    /\ job' = Some(j)
                    /\ AfterCreate(j)
           \/ \E code \in ErrorCodes :
                /\ requests' = Append(requests, FailedRequest("POST", "", code))
                /\ IF code = 404 THEN Return(None) ELSE Raise(TransportError(code))
                /\ UNCHANGED <<srv, job, start_time, poll_interval>>
    /\ post_body' = Some(CreateBody(self_type, webhooks))
    /\ UNCHANGED <<op, self_type, run_id, budget, sleeps, invocations>>
    /\ UNCHANGED <<webhooks, outside>>

\* call/start: job = self._create_job(run_input), one POST /api/v1/jobs/create/;
\* start returns the formatted job, call goes on to _wait_for_completion
ActorCreate ==
    /\ pc = "create"
    /\ op \in {"call", "start"}
    /\ \E lat \in Latencies :
        /\ now' = now + lat
        /\ \/ \E id \in ServerJobIds, st \in CreatedStatuses :
                LET j == JobRecord(id, st, self_type)
                IN  /\ srv' = ServerJob(id, st, self_type)
                    /\ requests' = Append(requests, OkRequest("POST", j))
                    /\ job' = Some(j)
                    /\ AfterCreate(j)
           \/ \E code \in ErrorCodes :
                /\ requests' = Append(requests, FailedRequest("POST", "", code))
                /\ Raise(TransportError(code))
                /\ UNCHANGED <<srv, job, start_time, poll_interval>>
    /\ post_body' = Some(CreateBody(self_type, webhooks))
    /\ UNCHANGED <<op, self_type, run_id, budget, sleeps, invocations>>
    /\ UNCHANGED <<webhooks, outside>>

\* _wait_for_completion: the loop condition is false, TimeoutError is raised
ActorTimeout ==
    /\ pc = "loop"
    /\ op = "call"
    /\ budget # NoLimit
    /\ ~ActorWithinBudget(now - start_time, budget)
    /\ Raise(ClientError("TimeoutError"))
    /\ UNCHANGED <<srv, op, self_type, run_id, budget, now, start_time, poll_interval,
                   job, requests, sleeps, invocations>>
    /\ UNCHANGED <<webhooks, post_body, outside>>

\* _wait_for_completion with timeout_secs=None: float < None raises TypeError
ActorNoneBudget ==
    /\ pc = "loop"
    /\ op = "call"
    /\ budget = NoLimit
    /\ Raise(ClientError("TypeError"))
    /\ UNCHANGED <<srv, op, self_type, run_id, budget, now, start_time, poll_interval,
                   job, requests, sleeps, invocations>>
    /\ UNCHANGED <<webhooks, post_body, outside>>

\* one pass of the loop of _wait_for_completion up to the sleep: GET the job; a
\* terminal job is returned to call, which raises JobError on "failed" and
\* returns the formatted job otherwise
ActorPoll ==
    /\ pc = "loop"
    /\ op = "call"
    /\ budget # NoLimit
    /\ ActorWithinBudget(now - start_time, budget)
    /\ NumGets < MaxPolls
    /\ LET job_id == job[1].id
       IN \E lat \in Latencies :
           /\ now' = now + lat
           /\ \/ /\ Holds(job_id)
                 /\ LET j == JobRecord(srv.id, srv.status, srv.scraper_type)
                    IN  /\ requests' = Append(requests, OkRequest("GET", j))
                        /\ job' = Some(j)
                        /\ IF ActorIsTerminal(j.status)
                           THEN IF j.status = "failed"
                                THEN Raise(ClientError("JobError"))
                                ELSE Return(Some(format_as_apify_run(j, self_type)))
                           ELSE pc' = "sleep" /\ UNCHANGED <<result, exc>>
              \/ \E code \in ErrorCodes :
                    /\ ~Holds(job_id) => code = 404
                    /\ requests' = Append(requests, FailedRequest("GET", job_id, code))
                    /\ Raise(TransportError(code))
                    /\ UNCHANGED job
    /\ UNCHANGED <<srv, op, self_type, run_id, budget, start_time, poll_interval,
                   sleeps, invocations>>
    /\ UNCHANGED <<webhooks, post_body, outside>>

\* time.sleep(poll_interval), then the backoff
ActorSleep ==
    /\ pc = "sleep"
    /\ op = "call"
    /\ sleeps' = Append(sleeps, poll_interval)
    /\ now' = now + poll_interval
    /\ poll_interval' = ActorNextPollInterval(poll_interval)
    /\ pc' = "loop"
    /\ UNCHANGED <<srv, op, self_type, run_id, budget, start_time, job, requests,
                   result, exc, invocations>>
    /\ UNCHANGED <<webhooks, post_body, outside>>

\* RunClient.get
RunGet ==
    /\ pc = "poll"
    /\ op = "get"
    /\ \E lat \in Latencies :
        /\ now' = now + lat
        /\ \/ /\ Holds(run_id)
              /\ LET j == JobRecord(srv.id, srv.status, srv.scraper_type)
                 IN  /\ requests' = Append(requests, OkRequest("GET", j))
                     /\ job' = Some(j)
                     /\ Return(Some(format_job_as_apify_run(j, j.scraper_type)))
           \/ \E code \in ErrorCodes :
                /\ ~Holds(run_id) => code = 404
                /\ requests' = Append(requests, FailedRequest("GET", run_id, code))
                /\ IF IsNotFound(code) THEN Return(None) ELSE Raise(TransportError(code))
                /\ UNCHANGED job
    /\ UNCHANGED <<srv, op, self_type, run_id, budget, start_time, poll_interval,
                   sleeps, invocations>>
    /\ UNCHANGED <<webhooks, post_body, outside>>

\* one pass of the loop of RunClient.wait_for_finish up to the sleep
RunPoll ==
    /\ pc = "poll"
    /\ op = "wait_for_finish"
    /\ NumGets < MaxPolls
    /\ \E lat \in Latencies :
        /\ now' = now + lat
        /\ \/ /\ Holds(run_id)
              /\ LET j == JobRecord(srv.id, srv.status, srv.scraper_type)
                 IN  /\ requests' = Append(requests, OkRequest("GET", j))
                     /\ job' = Some(j)
                     /\ IF is_terminal(j.status)
                        THEN Return(Some(format_job_as_apify_run(j, j.scraper_type)))
                        ELSE IF DeadlineReached(now' - start_time, budget)
                        THEN Return(Some(format_job_as_apify_run(j, j.scraper_type)))
                        ELSE pc' = "sleep" /\ UNCHANGED <<result, exc>>
           \/ \E code \in ErrorCodes :
                /\ ~Holds(run_id) => code = 404
                /\ requests' = Append(requests, FailedRequest("GET", run_id, code))
                /\ IF IsNotFound(code) THEN Return(None) ELSE Raise(TransportError(code))
                /\ UNCHANGED job
    /\ UNCHANGED <<srv, op, self_type, run_id, budget, start_time, poll_interval,
                   sleeps, invocations>>
    /\ UNCHANGED <<webhooks, post_body, outside>>

\* time.sleep(poll_interval); poll_interval = _next_poll_interval(poll_interval)
RunSleep ==
    /\ pc = "sleep"
    /\ op = "wait_for_finish"
    /\ sleeps' = Append(sleeps, poll_interval)
    /\ now' = now + poll_interval
    /\ poll_interval' = next_poll_interval(poll_interval)
    /\ pc' = "poll"
    /\ UNCHANGED <<srv, op, self_type, run_id, budget, start_time, job, requests,
                   result, exc, invocations>>
    /\ UNCHANGED <<webhooks, post_body, outside>>

\* abort: job = self._http.post(".../cancel/"); a 404 leads to the lookup,
\* any other error is raised, an answer is formatted and returned
RunAbortCancel ==
    /\ pc = "cancel"
    /\ op = "abort"
    /\ \E lat \in Latencies :
        /\ now' = now + lat
        /\ \/ /\ Holds(run_id)
              /\ LET j == JobRecord(srv.id, Cancelled(srv.status), srv.scraper_type)
                 IN  /\ srv' = ServerJob(j.id, j.status, j.scraper_type)
                     /\ requests' = Append(requests, OkRequest("POST", j))
                     /\ job' = Some(j)
                     /\ Return(Some(format_job_as_apify_run(j, j.scraper_type)))
           \/ \E code \in ErrorCodes :
                /\ ~Holds(run_id) => code = 404
                /\ requests' = Append(requests, FailedRequest("POST", run_id, code))
                /\ IF CancelNotFound(code)
                   THEN pc' = "fallback" /\ UNCHANGED <<result, exc>>
                   ELSE Raise(TransportError(code))
                /\ UNCHANGED <<srv, job>>
    /\ UNCHANGED <<op, self_type, run_id, budget, start_time, poll_interval,
                   sleeps, invocations>>
    /\ UNCHANGED <<webhooks, post_body, outside>>

\* abort after a 404 from the cancel: job = self._http.get(".../jobs/{id}/"),
\* whose errors are not caught
RunAbortFallback ==
    /\ pc = "fallback"
    /\ op = "abort"
    /\ \E lat \in Latencies :
        /\ now' = now + lat
        /\ \/ /\ Holds(run_id)
              /\ LET j == JobRecord(srv.id, srv.status, srv.scraper_type)
                 IN  /\ requests' = Append(requests, OkRequest("GET", j))
                     /\ job' = Some(j)
                     /\ Return(Some(format_job_as_apify_run(j, j.scraper_type)))
           \/ \E code \in ErrorCodes :
                /\ ~Holds(run_id) => code = 404
                /\ requests' = Append(requests, FailedRequest("GET", run_id, code))
                /\ Raise(TransportError(code))
                /\ UNCHANGED job
    /\ UNCHANGED <<srv, op, self_type, run_id, budget, start_time, poll_interval,
                   sleeps, invocations>>
    /\ UNCHANGED <<webhooks, post_body, outside>>

Next ==
    \/ InvokeActor
    \/ InvokeRun
    \/ ServerAdvance
    \/ ActorCreate
    \/ ActorTimeout
    \/ ActorNoneBudget
    \/ ActorPoll
    \/ ActorSleep
    \/ RunGet
    \/ RunPoll
    \/ RunSleep
    \/ RunAbortCancel
    \/ RunAbortFallback

Spec == Init /\ [][Next]_vars

----------------------------------------------------------------------------
(* dataset.py: DatasetClient.iterate_items and list_items *)

MaxRows == 4
MaxPageCap == 3
MaxOffset == 2
MaxLimit == 3

DEFAULT_PAGE_SIZE == 100

\* the result set of a job with n rows, in server order
ResultSet(n) == [i \in 1..n |-> [row |-> i]]

\* the server's results endpoint: the rows from offset on, at most limit of
\* them and at most page_cap, with the size of the whole result set
ResultsPage(offset, limit) ==
    (items_key :> SubSeq(rows, offset + 1,
                         Min(offset + Min(limit, page_cap), Len(rows))))
        @@ ("total" :> Len(rows))

\* item["runId"] = self._job_id
WithRunId(item) == [row |-> item.row, runId |-> "job-1"]

\* mutant: the limit is tested after the item is yielded
RECURSIVE ForItemsLimitAfterYield(_, _, _, _)
ForItemsLimitAfterYield(items, i, limit, out) ==
    IF i > Len(items)
    THEN [returned |-> FALSE, out |-> out]
    ELSE IF limit # None /\ Len(out) > limit[1]
    THEN [returned |-> TRUE, out |-> out]
    ELSE ForItemsLimitAfterYield(items, i + 1, limit, Append(out, WithRunId(items[i])))

\* for item in items: return once limit items have been yielded, else yield
\* the item; out is everything yielded so far, so items_yielded is Len(out)
RECURSIVE ForItems(_, _, _, _)
ForItems(items, i, limit, out) ==
    IF i > Len(items)
    THEN [returned |-> FALSE, out |-> out]
    ELSE IF limit # None /\ Len(out) >= limit[1]
    THEN [returned |-> TRUE, out |-> out]
    ELSE ForItems(items, i + 1, limit, Append(out, WithRunId(items[i])))

\* the variables outside the dataset reader
NotDataset ==
    <<lifecycle, webhooks, post_body, webhook_state, transport, modes, translations>>

\* the dataset reader before any operation, over any stored result set
DatasetInit ==
    /\ rows \in {ResultSet(n) : n \in 0..MaxRows}
    /\ page_cap \in 1..MaxPageCap
    /\ items_key \in {"items", "results"}
    /\ d_op = "none"
    /\ d_pc = "idle"
    /\ arg_offset = 0
    /\ arg_limit = None
    /\ current_offset = 0
    /\ yielded = <<>>
    /\ page_requests = <<>>
    /\ d_exc = None

\* the caller invokes iterate_items(offset, limit) and consumes the generator,
\* or list_items(offset, limit), which is list(self.iterate_items(...))
DatasetInvoke ==
    /\ d_pc = "idle"
    /\ \E o \in {"iterate_items", "list_items"}, off \in 0..MaxOffset,
          lim \in {None} \cup {Some(l) : l \in 0..MaxLimit} :
        /\ d_op' = o
        /\ arg_offset' = off
        /\ arg_limit' = lim
        /\ current_offset' = off
    /\ d_pc' = "fetch"
    /\ yielded' = <<>>
    /\ page_requests' = <<>>
    /\ d_exc' = None
    /\ UNCHANGED <<rows, page_cap, items_key>>
    /\ UNCHANGED NotDataset

\* one pass of the while loop of iterate_items: the GET of a page, the items
\* it yields, and the two tests that end the loop
DatasetFetchPage ==
    /\ d_pc = "fetch"
    /\ page_requests' = Append(page_requests,
                               [offset |-> current_offset, limit |-> DEFAULT_PAGE_SIZE])
    /\ \/ LET response == ResultsPage(current_offset, DEFAULT_PAGE_SIZE)
             items == DictGet(response, "items", <<>>)
             loop == ForItems(items, 1, arg_limit, yielded)
             total == DictGet(response, "total", 0)
         IN  /\ IF items = <<>>
                THEN d_pc' = "done" /\ UNCHANGED <<yielded, current_offset>>
                ELSE /\ yielded' = loop.out
                     /\ IF loop.returned
                        THEN d_pc' = "done" /\ UNCHANGED current_offset
                        ELSE /\ current_offset' = current_offset + Len(items)
                             /\ d_pc' = IF current_offset' >= total
                                        THEN "done" ELSE "fetch"
             /\ UNCHANGED d_exc
       \/ \E code \in ErrorCodes :
            /\ d_pc' = "raised"
            /\ d_exc' = Some(TransportError(code))
            /\ UNCHANGED <<yielded, current_offset>>
    /\ UNCHANGED <<rows, page_cap, items_key, d_op, arg_offset, arg_limit>>
    /\ UNCHANGED NotDataset

\* the run lifecycle at rest, no job on the server
LifecycleIdle ==
    /\ srv = NoServerJob
    /\ op = "none"
    /\ pc = "idle"
    /\ self_type = ""
    /\ run_id = ""
    /\ budget = 0
    /\ now = 0
    /\ start_time = 0
    /\ poll_interval = DEFAULT_POLL_INTERVAL
    /\ job = None
    /\ requests = <<>>
    /\ sleeps = <<>>
    /\ result = None
    /\ exc = None
    /\ invocations = 0
    /\ webhooks = None
    /\ post_body = None

InitDataset ==
    DatasetInit /\ LifecycleIdle /\ WebhookIdle /\ TransportIdle /\ ModesIdle /\ TranslationsIdle

NextDataset ==
    \/ DatasetInvoke
    \/ DatasetFetchPage

SpecDataset == InitDataset /\ [][NextDataset]_vars

----------------------------------------------------------------------------
(* webhook.py: the event tables; webhook_client.py: webhook CRUD *)

MaxWebhooks == 1

GOFETCH_TO_APIFY_EVENTS ==
    [e \in {"job.created", "job.started", "job.progress", "job.completed",
            "job.failed", "job.timed_out", "job.cancelled"} |->
        CASE e = "job.created" -> "ACTOR.RUN.CREATED"
          [] e = "job.started" -> "ACTOR.RUN.RUNNING"
          [] e = "job.progress" -> "ACTOR.RUN.RUNNING"
          [] e = "job.completed" -> "ACTOR.RUN.SUCCEEDED"
          [] e = "job.failed" -> "ACTOR.RUN.FAILED"
          [] e = "job.timed_out" -> "ACTOR.RUN.TIMED_OUT"
          [] e = "job.cancelled" -> "ACTOR.RUN.ABORTED"]

\* mutant: the reverse table obtained by inverting the table above, the later
\* entry job.progress winning over job.started
APIFY_TO_GOFETCH_EVENTS_inverted ==
    [e \in {"ACTOR.RUN.CREATED", "ACTOR.RUN.RUNNING", "ACTOR.RUN.SUCCEEDED",
            "ACTOR.RUN.FAILED", "ACTOR.RUN.TIMED_OUT", "ACTOR.RUN.ABORTED"} |->
        CASE e = "ACTOR.RUN.CREATED" -> "job.created"
          [] e = "ACTOR.RUN.RUNNING" -> "job.progress"
          [] e = "ACTOR.RUN.SUCCEEDED" -> "job.completed"
          [] e = "ACTOR.RUN.FAILED" -> "job.failed"
          [] e = "ACTOR.RUN.TIMED_OUT" -> "job.timed_out"
          [] e = "ACTOR.RUN.ABORTED" -> "job.cancelled"]

APIFY_TO_GOFETCH_EVENTS ==
    [e \in {"ACTOR.RUN.CREATED", "ACTOR.RUN.RUNNING", "ACTOR.RUN.SUCCEEDED",
            "ACTOR.RUN.FAILED", "ACTOR.RUN.TIMED_OUT", "ACTOR.RUN.ABORTED"} |->
        CASE e = "ACTOR.RUN.CREATED" -> "job.created"
          [] e = "ACTOR.RUN.RUNNING" -> "job.started"
          [] e = "ACTOR.RUN.SUCCEEDED" -> "job.completed"
          [] e = "ACTOR.RUN.FAILED" -> "job.failed"
          [] e = "ACTOR.RUN.TIMED_OUT" -> "job.timed_out"
          [] e = "ACTOR.RUN.ABORTED" -> "job.cancelled"]

\* [APIFY_TO_GOFETCH_EVENTS.get(et, et) for et in event_types]
ToGofetchEvents(event_types) ==
    [k \in 1..Len(event_types) |->
        DictGet(APIFY_TO_GOFETCH_EVENTS, event_types[k], event_types[k])]

\* [GOFETCH_TO_APIFY_EVENTS.get(e, e) for e in gofetch_events]
ToApifyEvents(gofetch_events) ==
    [k \in 1..Len(gofetch_events) |->
        DictGet(GOFETCH_TO_APIFY_EVENTS, gofetch_events[k], gofetch_events[k])]

\* mutant: the stored event names are handed to the caller untranslated
format_webhook_raw_events(data) ==
    [id |-> data.id,
     requestUrl |-> data.url,
     eventTypes |-> data.events,
     isActive |-> data.is_active]

\* _format_webhook, without the fields the model's server does not keep
format_webhook(data) ==
    [id |-> data.id,
     requestUrl |-> data.url,
     eventTypes |-> ToApifyEvents(data.events),
     isActive |-> data.is_active]

\* mutant: delete treats no answer as absence
WebhookDeleteNotFoundNever(code) == FALSE

\* WebhookClient.delete: except APIError as e: if e.status_code == 404: return
WebhookDeleteNotFound(code) == code = 404

\* WebhookClient.get: except APIError as e: if e.status_code == 404: return None
WebhookGetNotFound(code) == code = 404

WebhookIds == {"wh-0", "wh-1", "wh-2"}
Urls == {"https://a.example/hook", "https://b.example/hook"}

\* the event_types a caller passes to create or update
EventTypeArgs ==
    { <<"ACTOR.RUN.SUCCEEDED", "ACTOR.RUN.FAILED">>,
      <<"ACTOR.RUN.CREATED", "ACTOR.RUN.RUNNING">>,
      <<"ACTOR.RUN.TIMED_OUT", "ACTOR.RUN.ABORTED">> }

\* the id the server gives to the n-th webhook it registers
IdOf(n) == CASE n = 1 -> "wh-1" [] n = 2 -> "wh-2" [] OTHER -> "wh-more"

\* a webhook as the server stores and serves it
StoredWebhook(id, url, events, is_active) ==
    [id |-> id, url |-> url, events |-> events, is_active |-> is_active]

\* a webhook registered before, listening to the three events of a running job
EarlierWebhook ==
    StoredWebhook("wh-0", "https://a.example/hook",
                  <<"job.created", "job.started", "job.progress">>, TRUE)

Registered(id) == \E i \in 1..Len(registry) : registry[i].id = id
Stored(id) == registry[CHOOSE i \in 1..Len(registry) : registry[i].id = id]

\* the server applies the body of a PATCH to the webhook it stores
Patched(w, body) ==
    StoredWebhook(w.id, DictGet(body, "url", w.url),
                  DictGet(body, "events", w.events),
                  DictGet(body, "is_active", w.is_active))

\* the keyword arguments of an operation
Kwargs(event_types, request_url, is_active) ==
    [event_types |-> event_types, request_url |-> request_url, is_active |-> is_active]
NoKwargs == Kwargs(None, None, None)

\* one request of a webhook operation and its outcome
WebhookRequest(method, id, body, ok, code) ==
    [method |-> method, id |-> id, body |-> body, ok |-> ok, code |-> code]

\* the payload of update: a key for each keyword argument given
UpdatePayload(kwargs) ==
    (IF kwargs.event_types # None
     THEN "events" :> ToGofetchEvents(kwargs.event_types[1]) ELSE <<>>)
    @@ (IF kwargs.request_url # None THEN "url" :> kwargs.request_url[1] ELSE <<>>)
    @@ (IF kwargs.is_active # None THEN "is_active" :> kwargs.is_active[1] ELSE <<>>)

\* the variables outside the webhook clients
NotWebhook ==
    <<lifecycle, webhooks, post_body, dataset, transport, modes, translations>>

\* the webhook clients before any operation, the server holding the earlier
\* webhook or none
WebhookInit ==
    /\ registry \in {<<>>, <<EarlierWebhook>>}
    /\ created = 0
    /\ w_op = "none"
    /\ w_id = ""
    /\ w_args = NoKwargs
    /\ w_request = None
    /\ w_pc = "idle"
    /\ w_result = None
    /\ w_exc = None

WebhookReturn(v) == w_pc' = "returned" /\ w_result' = v /\ w_exc' = None
WebhookRaise(e) == w_pc' = "raised" /\ w_exc' = Some(e) /\ w_result' = None

\* WebhookCollectionClient.create: one POST /api/v1/webhooks/ with the
\* translated events; the answer is formatted and returned
WebhookCreate ==
    /\ created < MaxWebhooks
    /\ \E et \in EventTypeArgs, u \in Urls, a \in BOOLEAN :
        LET payload == [url |-> u, events |-> ToGofetchEvents(et), is_active |-> a]
        IN  /\ w_op' = "create"
            /\ w_id' = ""
            /\ w_args' = Kwargs(Some(et), Some(u), Some(a))
            /\ \/ LET w == StoredWebhook(IdOf(created + 1), payload.url,
                                         payload.events, payload.is_active)
                  IN  /\ registry' = Append(registry, w)
                      /\ created' = created + 1
                      /\ w_request' = Some(WebhookRequest("POST", "", Some(payload), TRUE, 200))
                      /\ WebhookReturn(Some(format_webhook(w)))
               \/ \E code \in ErrorCodes :
                    /\ w_request' = Some(WebhookRequest("POST", "", Some(payload), FALSE, code))
                    /\ WebhookRaise(TransportError(code))
                    /\ UNCHANGED <<registry, created>>
    /\ UNCHANGED NotWebhook

\* WebhookCollectionClient.list: one GET /api/v1/webhooks/; the webhooks are
\* read from `results`, else from `items`, and each is formatted
WebhookList ==
    /\ w_op' = "list"
    /\ w_id' = ""
    /\ w_args' = NoKwargs
    /\ \/ \E key \in {"results", "items"}, counted \in {"total", "count"} :
            LET response == (key :> registry) @@ (counted :> Len(registry))
                results == DictGet(response, "results", DictGet(response, "items", <<>>))
            IN  /\ w_request' = Some(WebhookRequest("GET", "", None, TRUE, 200))
                /\ WebhookReturn(Some(
                       [items |-> [i \in 1..Len(results) |-> format_webhook(results[i])],
                        count |-> Len(results),
                        total |-> DictGet(response, "total",
                                          DictGet(response, "count", Len(results)))]))
       \/ \E code \in ErrorCodes :
            /\ w_request' = Some(WebhookRequest("GET", "", None, FALSE, code))
            /\ WebhookRaise(TransportError(code))
    /\ UNCHANGED <<registry, created>>
    /\ UNCHANGED NotWebhook

\* WebhookClient.get: one GET /api/v1/webhooks/{id}/; None on 404
WebhookGet ==
    /\ \E id \in WebhookIds :
        /\ w_op' = "get"
        /\ w_id' = id
        /\ w_args' = NoKwargs
        /\ \/ /\ Registered(id)
              /\ w_request' = Some(WebhookRequest("GET", id, None, TRUE, 200))
              /\ WebhookReturn(Some(format_webhook(Stored(id))))
           \/ \E code \in ErrorCodes :
                /\ (code = 404) <=> ~Registered(id)
                /\ w_request' = Some(WebhookRequest("GET", id, None, FALSE, code))
                /\ IF WebhookGetNotFound(code)
                   THEN WebhookReturn(None)
                   ELSE WebhookRaise(TransportError(code))
    /\ UNCHANGED <<registry, created>>
    /\ UNCHANGED NotWebhook

\* WebhookClient.update(**kwargs): one PATCH /api/v1/webhooks/{id}/ with a key
\* for each argument given; the answer is formatted and returned
WebhookUpdate ==
    /\ \E id \in WebhookIds,
          kwargs \in { Kwargs(None, Some("https://b.example/hook"), Some(FALSE)),
                       Kwargs(Some(<<"ACTOR.RUN.RUNNING">>), None, None),
                       Kwargs(None, None, Some(TRUE)) } :
        LET payload == UpdatePayload(kwargs)
        IN  /\ w_op' = "update"
            /\ w_id' = id
            /\ w_args' = kwargs
            /\ \/ /\ Registered(id)
                  /\ LET w == Patched(Stored(id), payload)
                     IN  /\ registry' = [i \in 1..Len(registry) |->
                                            IF registry[i].id = id THEN w ELSE registry[i]]
                         /\ w_request' = Some(WebhookRequest("PATCH", id, Some(payload), TRUE, 200))
                         /\ WebhookReturn(Some(format_webhook(w)))
               \/ \E code \in ErrorCodes :
                    /\ (code = 404) <=> ~Registered(id)
                    /\ w_request' = Some(WebhookRequest("PATCH", id, Some(payload), FALSE, code))
                    /\ WebhookRaise(TransportError(code))
                    /\ UNCHANGED registry
    /\ UNCHANGED created
    /\ UNCHANGED NotWebhook

\* WebhookClient.delete: one DELETE /api/v1/webhooks/{id}/; silent on 404
WebhookDelete ==
    /\ \E id \in WebhookIds :
        /\ w_op' = "delete"
        /\ w_id' = id
        /\ w_args' = NoKwargs
        /\ \/ /\ Registered(id)
              /\ registry' = SelectSeq(registry, LAMBDA w : w.id # id)
              /\ w_request' = Some(WebhookRequest("DELETE", id, None, TRUE, 204))
              /\ WebhookReturn(None)
           \/ \E code \in ErrorCodes :
                /\ (code = 404) <=> ~Registered(id)
                /\ w_request' = Some(WebhookRequest("DELETE", id, None, FALSE, code))
                /\ IF WebhookDeleteNotFound(code)
                   THEN WebhookReturn(None)
                   ELSE WebhookRaise(TransportError(code))
                /\ UNCHANGED registry
    /\ UNCHANGED created
    /\ UNCHANGED NotWebhook

InitWebhook ==
    WebhookInit /\ LifecycleIdle /\ DatasetIdle /\ TransportIdle /\ ModesIdle /\ TranslationsIdle

NextWebhook ==
    \/ WebhookCreate
    \/ WebhookList
    \/ WebhookGet
    \/ WebhookUpdate
    \/ WebhookDelete

SpecWebhook == InitWebhook /\ [][NextWebhook]_vars

----------------------------------------------------------------------------
(* http.py: HTTPClient._request and _handle_error_response *)

\* GoFetchError.__init__: self.details = details or {}
DetailsOrEmpty(details) == IF details = None THEN <<>> ELSE details[1]

\* the exceptions of exceptions.py, with the attributes their constructors set
APIError(message, status_code, error_code, details) ==
    [type |-> "APIError", message |-> message, status_code |-> status_code,
     error_code |-> error_code, details |-> DetailsOrEmpty(details),
     retry_after |-> None]

AuthenticationError(message, details) ==
    [type |-> "AuthenticationError", message |-> message, status_code |-> 401,
     error_code |-> Some("authentication_error"),
     details |-> DetailsOrEmpty(details), retry_after |-> None]

RateLimitError(message, retry_after, details) ==
    [type |-> "RateLimitError", message |-> message, status_code |-> 429,
     error_code |-> Some("rate_limit_exceeded"),
     details |-> DetailsOrEmpty(details), retry_after |-> retry_after]

\* an exception of httpx that _request does not catch
HttpxError(type) ==
    [type |-> type, message |-> "", status_code |-> 0 - 1, error_code |-> None,
     details |-> <<>>, retry_after |-> None]

IsAPIError(e) == e.type \in {"APIError", "AuthenticationError", "RateLimitError"}

\* a response: its status, its Retry-After header (<<>> when absent), its
\* body as parsed by response.json() (<<>> when that raises) and its text
Response(status_code, retry_after_header, json, text) ==
    [status_code |-> status_code, retry_after_header |-> retry_after_header,
     json |-> json, text |-> text]

\* int(s) for the header values of the model; a string outside raises ValueError
IntOf == ("30" :> 30) @@ ("0" :> 0)

\* Python truthiness of an optional integer, and `a or b`
Truthy(a) == a # None /\ a[1] # 0
Or(a, b) == IF Truthy(a) THEN a ELSE b

\* d.get(k) on a dict of the model: <<v>>, or <<>> when the key is missing
Get(d, k) == IF k \in DOMAIN d THEN Some(d[k]) ELSE None

\* the error bodies a server sends: not JSON (with or without text), or a
\* JSON object with some of message, error, details, retry_after
NotJson == None
ErrorBodies ==
    { <<NotJson, "Bad Gateway">>,
      <<NotJson, "">>,
      <<Some(<<>>), "{}">>,
      <<Some([message |-> "Validation failed", error |-> "validation_error",
              details |-> [field |-> "config.urls"]]), "">>,
      <<Some([error |-> "quota_exceeded"]), "">> }

RateLimitBodies ==
    { <<NotJson, "Too Many Requests">>,
      <<Some([message |-> "Rate limit exceeded"]), "">>,
      <<Some([message |-> "Rate limit exceeded", retry_after |-> 45]), "">> }

ErrorResponses ==
    {Response(st, None, b[1], b[2]) : st \in {400, 401, 403, 404, 500, 502},
                                      b \in ErrorBodies}
    \cup {Response(429, h, b[1], b[2]) : h \in {None, Some("30"), Some("0"), Some("soon")},
                                         b \in RateLimitBodies}

OkResponses == {Response(200, None, Some([id |-> "job-1"]), ""),
                Response(204, None, NotJson, "")}

\* mutant: 403 is taken for an authentication failure as 401 is
handle_error_response_403_as_401(response) ==
    LET error_data == IF response.json = None
                      THEN [message |-> IF response.text # "" THEN response.text
                                        ELSE "Unknown error"]
                      ELSE response.json[1]
        error_message == DictGet(error_data, "message",
                                 DictGet(error_data, "error", "Unknown error"))
        error_code == Get(error_data, "error")
        details == Some(DictGet(error_data, "details", <<>>))
        header_value == IF response.retry_after_header # None
                           /\ response.retry_after_header[1] \in DOMAIN IntOf
                        THEN Some(IntOf[response.retry_after_header[1]])
                        ELSE None
    IN  IF response.status_code \in {401, 403}
        THEN AuthenticationError(error_message, details)
        ELSE IF response.status_code = 429
        THEN RateLimitError(error_message,
                            Or(header_value, Get(error_data, "retry_after")),
                            details)
        ELSE APIError(error_message, response.status_code, error_code, details)

\* HTTPClient._handle_error_response: the exception it raises for a response
handle_error_response(response) ==
    LET error_data == IF response.json = None
                      THEN [message |-> IF response.text # "" THEN response.text
                                        ELSE "Unknown error"]
                      ELSE response.json[1]
        error_message == DictGet(error_data, "message",
                                 DictGet(error_data, "error", "Unknown error"))
        error_code == Get(error_data, "error")
        details == Some(DictGet(error_data, "details", <<>>))
        header_value == IF response.retry_after_header # None
                           /\ response.retry_after_header[1] \in DOMAIN IntOf
                        THEN Some(IntOf[response.retry_after_header[1]])
                        ELSE None
    IN  IF response.status_code = 401
        THEN AuthenticationError(error_message, details)
        ELSE IF response.status_code = 429
        THEN RateLimitError(error_message,
                            Or(header_value, Get(error_data, "retry_after")),
                            details)
        ELSE APIError(error_message, response.status_code, error_code, details)

\* one entry of the attempts trace; delivered tells whether the request
\* reached the server
Attempt(kind, status_code, delivered) ==
    [kind |-> kind, status_code |-> status_code, delivered |-> delivered]

\* RETRYABLE_STATUS_CODES of constants.py, which _request does not consult
RETRYABLE_STATUS_CODES == {408, 429, 500, 502, 503, 504}

\* mutant: every status of RETRYABLE_STATUS_CODES is retried
IsRetriedByStatus(e) == e.status_code \in RETRYABLE_STATUS_CODES

\* except RateLimitError as e: ... continue; except APIError: raise
IsRetried(e) == e.type = "RateLimitError"

\* the variables outside the transport
NotTransport ==
    <<lifecycle, webhooks, post_body, dataset, webhook_state, modes, translations>>

\* an HTTPClient built with some max_retries, before any request
TransportInit ==
    /\ max_retries \in {0, 1, DEFAULT_MAX_RETRIES}
    /\ t_method = ""
    /\ t_pc = "idle"
    /\ attempt = 0
    /\ retry_delay = DEFAULT_RETRY_DELAY
    /\ last_exception = None
    /\ attempts = <<>>
    /\ t_sleeps = <<>>
    /\ t_response = None
    /\ t_result = None
    /\ t_exc = None

\* get / post / delete: return self._request(method, path, ...)
TransportRequest ==
    /\ t_pc = "idle"
    /\ \E m \in {"GET", "POST"} : t_method' = m
    /\ t_pc' = "attempt"
    /\ attempt' = 0
    /\ retry_delay' = DEFAULT_RETRY_DELAY
    /\ last_exception' = None
    /\ UNCHANGED <<max_retries, attempts, t_sleeps, t_response, t_result, t_exc>>
    /\ UNCHANGED NotTransport

\* what follows `continue`: the next pass of the loop, or after the last pass
\* the raise of last_exception, as it is when an APIError, else as APIError
\* with status_code 0
ContinueWith(e) ==
    /\ last_exception' = Some(e)
    /\ attempt' = attempt + 1
    /\ IF attempt < max_retries
       THEN t_pc' = "attempt" /\ t_exc' = None
       ELSE /\ t_pc' = "raised"
            /\ t_exc' = Some(IF IsAPIError(e) THEN e
                             ELSE APIError("Request failed after all attempts", 0,
                                           None, None))
    /\ t_result' = None

\* mutant: the sleep and the doubling are not guarded by the attempt number
SleepAlways(d) ==
    /\ t_sleeps' = Append(t_sleeps, d)
    /\ retry_delay' = retry_delay * RETRY_BACKOFF_FACTOR

\* if attempt < self._max_retries: time.sleep(d); retry_delay *= RETRY_BACKOFF_FACTOR
SleepUnlessLast(d) ==
    IF attempt < max_retries
    THEN /\ t_sleeps' = Append(t_sleeps, d)
         /\ retry_delay' = retry_delay * RETRY_BACKOFF_FACTOR
    ELSE UNCHANGED <<t_sleeps, retry_delay>>

\* one pass of the loop of _request: the attempt, and either the return, the
\* raise, or the sleep before the next pass
TransportAttempt ==
    /\ t_pc = "attempt"
    /\ attempt <= max_retries
    /\ \/ \E r \in OkResponses :
            /\ attempts' = Append(attempts, Attempt("response", r.status_code, TRUE))
            /\ t_response' = Some(r)
            /\ t_pc' = "returned"
            /\ t_result' = IF r.status_code = 204 THEN Some(<<>>) ELSE r.json
            /\ UNCHANGED <<attempt, retry_delay, last_exception, t_sleeps, t_exc>>
       \/ \E kind \in {"ConnectError", "TimeoutException"}, delivered \in BOOLEAN :
            /\ kind = "ConnectError" => ~delivered
            /\ attempts' = Append(attempts, Attempt(kind, 0, delivered))
            /\ t_response' = None
            /\ SleepUnlessLast(retry_delay)
            /\ ContinueWith(HttpxError(kind))
       \/ /\ attempts' = Append(attempts, Attempt("ReadError", 0, TRUE))
          /\ t_response' = None
          /\ t_pc' = "raised"
          /\ t_exc' = Some(HttpxError("ReadError"))
          /\ UNCHANGED <<attempt, retry_delay, last_exception, t_sleeps, t_result>>
       \/ \E r \in ErrorResponses :
            LET e == handle_error_response(r)
            IN  /\ attempts' = Append(attempts, Attempt("response", r.status_code, TRUE))
                /\ t_response' = Some(r)
                /\ IF IsRetried(e)
                   THEN /\ SleepUnlessLast(IF Truthy(e.retry_after)
                                           THEN e.retry_after[1] ELSE retry_delay)
                        /\ ContinueWith(e)
                   ELSE /\ t_pc' = "raised"
                        /\ t_exc' = Some(e)
                        /\ UNCHANGED <<attempt, retry_delay, last_exception,
                                       t_sleeps, t_result>>
    /\ UNCHANGED <<max_retries, t_method>>
    /\ UNCHANGED NotTransport

InitTransport ==
    TransportInit /\ LifecycleIdle /\ DatasetIdle /\ WebhookIdle /\ ModesIdle /\ TranslationsIdle

NextTransport ==
    \/ TransportRequest
    \/ TransportAttempt

SpecTransport == InitTransport /\ [][NextTransport]_vars

----------------------------------------------------------------------------
(* The blocking and the cooperative variant of a wait, side by side *)

\* AsyncActorClient._wait_for_completion: if job["status"] in (...)
AsyncActorIsTerminal(status) == status \in {"completed", "failed", "cancelled"}

\* poll_interval = min(poll_interval * POLL_BACKOFF_FACTOR, MAX_POLL_INTERVAL)
AsyncActorNextPollInterval(interval) ==
    Min((interval * POLL_BACKOFF_FACTOR_NUM) \div POLL_BACKOFF_FACTOR_DEN,
        MAX_POLL_INTERVAL)

\* while time.time() - start_time < timeout_secs
AsyncActorWithinBudget(elapsed, timeout_secs) == elapsed < timeout_secs

\* AsyncActorClient._format_as_apify_run
async_format_as_apify_run(j, scraper_type) ==
    LET status == DictGet(GOFETCH_TO_APIFY_STATUS, j.status, "RUNNING")
    IN  [id |-> j.id,
         actId |-> <<"gofetch", scraper_type>>,
         status |-> status,
         defaultDatasetId |-> j.id,
         exitCode |-> IF status = "SUCCEEDED" THEN Some(0) ELSE None,
         gofetch_job |-> j]

\* AsyncRunClient.wait_for_finish: except APIError as e: if e.status_code == 404
AsyncIsNotFound(code) == code = 404

\* wait_secs is not None and (time.monotonic() - start_time) >= wait_secs
AsyncDeadlineReached(elapsed, wait_secs) == wait_secs # NoLimit /\ elapsed >= wait_secs

\* the server's answer to one request: a job status, or an error status code
Answer(ok, status, code) == [ok |-> ok, status |-> status, code |-> code]

Answers ==
    {Answer(TRUE, st, 200) : st \in {"running", "completed", "failed", "timed_out"}}
    \cup {Answer(FALSE, "", code) : code \in {404, 500}}

\* the scripts of at most MaxScript answers
Scripts == UNION {[1..n -> Answers] : n \in 1..MaxScript}

\* the answer to the n-th request; the last answer of the script repeats
AnswerAt(n) == m_script[Min(n, Len(m_script))]

\* the answer to the next request of variant c
NextAnswer(c) == AnswerAt(Len(c.requests) + 1)

\* variant c after a request that was answered with job j: time has passed
Answered(c, method, j) ==
    [c EXCEPT !.requests = Append(@, OkRequest(method, j)),
              !.now = @ + m_latency,
              !.job = Some(j)]

\* variant c after a request that raised in the transport
Failed(c, method, id, code) ==
    [c EXCEPT !.requests = Append(@, FailedRequest(method, id, code)),
              !.now = @ + m_latency]

Raised(c, e) == [c EXCEPT !.pc = "raised", !.exc = Some(e), !.result = None]
Returned(c, v) == [c EXCEPT !.pc = "returned", !.result = v, !.exc = None]

\* one step of ActorClient.call: _create_job, then the loop of
\* _wait_for_completion, then the test for "failed" and the formatting
ActorCallStep(c, timeout_secs, scraper_type) ==
    LET a == NextAnswer(c)
        j == JobRecord("job-1", a.status, scraper_type)
    IN  CASE c.pc = "create" ->
                IF a.ok
                THEN [Answered(c, "POST", j) EXCEPT
                         !.pc = "loop", !.start_time = c.now + m_latency,
                         !.poll_interval = DEFAULT_POLL_INTERVAL]
                ELSE Raised(Failed(c, "POST", "", a.code), TransportError(a.code))
          [] c.pc = "loop" ->
                IF timeout_secs = NoLimit
                THEN Raised(c, ClientError("TypeError"))
                ELSE IF ~ActorWithinBudget(c.now - c.start_time, timeout_secs)
                THEN Raised(c, ClientError("TimeoutError"))
                ELSE IF ~a.ok
                THEN Raised(Failed(c, "GET", c.job[1].id, a.code), TransportError(a.code))
                ELSE IF ActorIsTerminal(j.status)
                THEN IF j.status = "failed"
                     THEN Raised(Answered(c, "GET", j), ClientError("JobError"))
                     ELSE Returned(Answered(c, "GET", j),
                                   Some(format_as_apify_run(j, scraper_type)))
                ELSE [Answered(c, "GET", j) EXCEPT !.pc = "sleep"]
          [] c.pc = "sleep" ->
                [c EXCEPT !.sleeps = Append(@, c.poll_interval),
                          !.now = @ + c.poll_interval,
                          !.poll_interval = ActorNextPollInterval(@),
                          !.pc = "loop"]

\* one step of AsyncActorClient.call
AsyncActorCallStep(c, timeout_secs, scraper_type) ==
    LET a == NextAnswer(c)
        j == JobRecord("job-1", a.status, scraper_type)
    IN  CASE c.pc = "create" ->
                IF a.ok
                THEN [Answered(c, "POST", j) EXCEPT
                         !.pc = "loop", !.start_time = c.now + m_latency,
                         !.poll_interval = DEFAULT_POLL_INTERVAL]
                ELSE Raised(Failed(c, "POST", "", a.code), TransportError(a.code))
          [] c.pc = "loop" ->
                IF timeout_secs = NoLimit
                THEN Raised(c, ClientError("TypeError"))
                ELSE IF ~AsyncActorWithinBudget(c.now - c.start_time, timeout_secs)
                THEN Raised(c, ClientError("TimeoutError"))
                ELSE IF ~a.ok
                THEN Raised(Failed(c, "GET", c.job[1].id, a.code), TransportError(a.code))
                ELSE IF AsyncActorIsTerminal(j.status)
                THEN IF j.status = "failed"
                     THEN Raised(Answered(c, "GET", j), ClientError("JobError"))
                     ELSE Returned(Answered(c, "GET", j),
                                   Some(async_format_as_apify_run(j, scraper_type)))
                ELSE [Answered(c, "GET", j) EXCEPT !.pc = "sleep"]
          [] c.pc = "sleep" ->
                [c EXCEPT !.sleeps = Append(@, c.poll_interval),
                          !.now = @ + c.poll_interval,
                          !.poll_interval = AsyncActorNextPollInterval(@),
                          !.pc = "loop"]

\* one step of RunClient.wait_for_finish on the run of id
RunWaitStep(c, wait_secs, id) ==
    LET a == NextAnswer(c)
        j == JobRecord(id, a.status, "instagram")
        polled == Answered(c, "GET", j)
    IN  CASE c.pc = "poll" ->
                IF ~a.ok
                THEN IF IsNotFound(a.code)
                     THEN Returned(Failed(c, "GET", id, a.code), None)
                     ELSE Raised(Failed(c, "GET", id, a.code), TransportError(a.code))
                ELSE IF is_terminal(j.status)
                THEN Returned(polled, Some(format_job_as_apify_run(j, j.scraper_type)))
                ELSE IF DeadlineReached(polled.now - c.start_time, wait_secs)
                THEN Returned(polled, Some(format_job_as_apify_run(j, j.scraper_type)))
                ELSE [polled EXCEPT !.pc = "sleep"]
          [] c.pc = "sleep" ->
                [c EXCEPT !.sleeps = Append(@, c.poll_interval),
                          !.now = @ + c.poll_interval,
                          !.poll_interval = next_poll_interval(@),
                          !.pc = "poll"]

\* one step of AsyncRunClient.wait_for_finish on the run of id
AsyncRunWaitStep(c, wait_secs, id) ==
    LET a == NextAnswer(c)
        j == JobRecord(id, a.status, "instagram")
        polled == Answered(c, "GET", j)
    IN  CASE c.pc = "poll" ->
                IF ~a.ok
                THEN IF AsyncIsNotFound(a.code)
                     THEN Returned(Failed(c, "GET", id, a.code), None)
                     ELSE Raised(Failed(c, "GET", id, a.code), TransportError(a.code))
                ELSE IF is_terminal(j.status)
                THEN Returned(polled, Some(format_job_as_apify_run(j, j.scraper_type)))
                ELSE IF AsyncDeadlineReached(polled.now - c.start_time, wait_secs)
                THEN Returned(polled, Some(format_job_as_apify_run(j, j.scraper_type)))
                ELSE [polled EXCEPT !.pc = "sleep"]
          [] c.pc = "sleep" ->
                [c EXCEPT !.sleeps = Append(@, c.poll_interval),
                          !.now = @ + c.poll_interval,
                          !.poll_interval = next_poll_interval(@),
                          !.pc = "poll"]

NotModes ==
    <<lifecycle, webhooks, post_body, dataset, webhook_state, transport, translations>>

\* whether variant c can take a step the model follows
Runs(c) ==
    /\ c.pc \notin {"idle", "returned", "raised"}
    /\ c.pc = "sleep" => Len(c.sleeps) < MaxModeSleeps

\* both variants of one class called with the same budget, the server about
\* to give both the same answers
ModesInit ==
    /\ m_class \in {"actor", "run"}
    /\ m_budget \in {0, 5 * TicksPerSecond, NoLimit}
    /\ m_latency \in Latencies
    /\ m_script \in Scripts
    /\ sync_ctl = Ctl(IF m_class = "actor" THEN "create" ELSE "poll")
    /\ async_ctl = sync_ctl

\* the blocking variant takes its next step
SyncStep ==
    /\ Runs(sync_ctl)
    /\ sync_ctl' = IF m_class = "actor"
                   THEN ActorCallStep(sync_ctl, m_budget, "instagram")
                   ELSE RunWaitStep(sync_ctl, m_budget, "job-1")
    /\ UNCHANGED <<m_class, m_budget, m_latency, m_script, async_ctl>>
    /\ UNCHANGED NotModes

\* the cooperative variant takes its next step
AsyncStep ==
    /\ Runs(async_ctl)
    /\ async_ctl' = IF m_class = "actor"
                    THEN AsyncActorCallStep(async_ctl, m_budget, "instagram")
                    ELSE AsyncRunWaitStep(async_ctl, m_budget, "job-1")
    /\ UNCHANGED <<m_class, m_budget, m_latency, m_script, sync_ctl>>
    /\ UNCHANGED NotModes

InitModes ==
    ModesInit /\ LifecycleIdle /\ DatasetIdle /\ WebhookIdle /\ TransportIdle /\ TranslationsIdle

NextModes ==
    \/ SyncStep
    \/ AsyncStep

SpecModes == InitModes /\ [][NextModes]_vars

----------------------------------------------------------------------------
(* The translations: types.py resolve_actor_url, webhook.py transform_webhook_payload *)

ACTOR_URL_MAPPING ==
    [u \in {"apify/instagram-scraper", "apify/instagram-profile-scraper",
            "clockworks/tiktok-profile-scraper", "streamers/youtube-scraper",
            "instagram", "instagram_profile", "instagram_posts", "tiktok",
            "youtube"} |->
        CASE u = "apify/instagram-scraper" -> "instagram"
          [] u = "apify/instagram-profile-scraper" -> "instagram_profile"
          [] u = "clockworks/tiktok-profile-scraper" -> "tiktok"
          [] u = "streamers/youtube-scraper" -> "youtube"
          [] OTHER -> u]

\* return ACTOR_URL_MAPPING.get(actor_url, actor_url)
resolve_actor_url(actor_url) == DictGet(ACTOR_URL_MAPPING, actor_url, actor_url)

\* the local status_map of transform_webhook_payload
status_map ==
    [s \in {"pending", "running", "completed", "failed", "timed_out", "cancelled"} |->
        CASE s = "pending" -> "READY"
          [] s = "running" -> "RUNNING"
          [] s = "completed" -> "SUCCEEDED"
          [] s = "failed" -> "FAILED"
          [] s = "timed_out" -> "TIMED-OUT"
          [] s = "cancelled" -> "ABORTED"]

\* transform_webhook_payload; d.get(k) is <<v>>, or <<>> for None
transform_webhook_payload(gofetch_payload) ==
    LET event == DictGet(gofetch_payload, "event", "")
        data == DictGet(gofetch_payload, "data", <<>>)
        apify_event == DictGet(GOFETCH_TO_APIFY_EVENTS, event, event)
        status == DictGet(status_map, DictGet(data, "status", ""),
                          DictGet(data, "status", "RUNNING"))
    IN  [userId |-> "gofetch",
         eventType |-> apify_event,
         eventData |-> [actorId |-> Get(data, "scraper_type"),
                        actorRunId |-> Get(data, "job_id")],
         resource |-> [id |-> Get(data, "job_id"),
                       actId |-> Get(data, "scraper_type"),
                       userId |-> "gofetch",
                       status |-> status,
                       defaultDatasetId |-> Get(data, "job_id"),
                       startedAt |-> Get(data, "started_at"),
                       finishedAt |-> Get(data, "completed_at")],
         defaultDatasetId |-> Get(data, "job_id"),
         gofetch_payload |-> gofetch_payload]

\* the identifiers a caller passes to client.actor
ActorUrls ==
    {"apify/instagram-scraper", "apify/instagram-profile-scraper",
     "clockworks/tiktok-profile-scraper", "streamers/youtube-scraper",
     "xmolodtsov/reddit-scraper", "xmolodtsov/google-news-scraper",
     "instagram", "instagram_profile", "instagram_posts", "tiktok", "youtube",
     "reddit", "google_news", "unknown/actor"}

\* a dict with key k when v is given, the empty dict when it is not
Entry(k, v) == IF v = None THEN <<>> ELSE (k :> v[1])

Optional(S) == {None} \cup {Some(v) : v \in S}

\* the data of a webhook payload: any of status, job_id, scraper_type missing
PayloadData ==
    {Entry("status", st) @@ Entry("job_id", id) @@ Entry("scraper_type", t) :
        st \in Optional(ServerStatuses), id \in Optional({"job-1"}),
        t \in Optional({"instagram"})}

\* the webhook payloads a handler receives: event or data may be missing, the
\* event may be one the table does not know
Payloads ==
    {Entry("event", e) @@ Entry("data", d) :
        e \in Optional({"job.completed", "job.failed", "job.archived"}),
        d \in Optional(PayloadData)}

NotTranslations ==
    <<lifecycle, webhooks, post_body, dataset, webhook_state, transport, modes>>

\* GoFetchClient.actor(actor_url): the ActorClient is built with the resolved type
ClientActor ==
    /\ \E actor_url \in ActorUrls :
        /\ u_op' = "actor"
        /\ u_arg' = actor_url
        /\ u_result' = resolve_actor_url(actor_url)
    /\ UNCHANGED NotTranslations

\* a webhook handler calls transform_webhook_payload(payload)
TransformWebhookPayload ==
    /\ \E payload \in Payloads :
        /\ u_op' = "transform_webhook_payload"
        /\ u_arg' = payload
        /\ u_result' = transform_webhook_payload(payload)
    /\ UNCHANGED NotTranslations

InitTranslations ==
    TranslationsIdle /\ LifecycleIdle /\ DatasetIdle /\ WebhookIdle /\ TransportIdle
    /\ ModesIdle

NextTranslations ==
    \/ ClientActor
    \/ TransformWebhookPayload

SpecTranslations == InitTranslations /\ [][NextTranslations]_vars

----------------------------------------------------------------------------
(* Vocabulary of the properties *)

\* the documented translation of the six server statuses
DocumentedStatus ==
    [s \in JobStatus |->
        CASE s = "pending" -> "READY"
          [] s = "running" -> "RUNNING"
          [] s = "completed" -> "SUCCEEDED"
          [] s = "failed" -> "FAILED"
          [] s = "cancelled" -> "ABORTED"
          [] s = "timed_out" -> "TIMED-OUT"]

DocumentedTerminal == {"completed", "failed", "cancelled", "timed_out"}

LastRequest == requests[Len(requests)]

\* the last request was answered with a job record whose status is in S
LastObserved(S) ==
    /\ requests # <<>>
    /\ LastRequest.ok
    /\ LastRequest.status \in S

\* request i was a poll answered with a job record whose status is in S
PollObserved(i, S) ==
    /\ requests[i].method = "GET"
    /\ requests[i].ok
    /\ requests[i].status \in S

\* a Run was returned, derived from the job record of the last request
ReturnedRunOfLastRequest ==
    /\ pc = "returned"
    /\ result # None
    /\ job # None
    /\ result[1].gofetch_job = job[1]
    /\ job[1].status = LastRequest.status

----------------------------------------------------------------------------
(* C1 .. C3: the never-raises contract of ActorClient.call *)

\* C1: ActorClient.call never raises because of a job-level outcome: when a
\* poll has observed one of the four terminal statuses and call has ended, it
\* has returned a Run whose status is the translation of that status (exitCode
\* None unless SUCCEEDED), and no JobError was raised.
C1_CallNeverRaisesOnJobOutcome ==
    (op = "call" /\ Finished /\ LastObserved(DocumentedTerminal)
        /\ LastRequest.method = "GET")
    => /\ ~(pc = "raised" /\ exc[1].type = "JobError")
       /\ ReturnedRunOfLastRequest
       /\ result[1].status = DocumentedStatus[LastRequest.status]
       /\ (result[1].status # "SUCCEEDED" => result[1].exitCode = None)

\* C2: when the finite wait budget of call elapses before the job is terminal
\* (every request was answered, the last poll saw pending or running), call
\* returns the Run of that last poll, READY or RUNNING, and raises no
\* TimeoutError.
C2_CallReturnsSnapshotOnTimeout ==
    (op = "call" /\ budget # NoLimit /\ Finished /\ NumGets >= 1
        /\ (\A i \in 1..Len(requests) : requests[i].ok)
        /\ LastObserved({"pending", "running"}))
    => /\ ~(pc = "raised" /\ exc[1].type = "TimeoutError")
       /\ ReturnedRunOfLastRequest
       /\ result[1].status = DocumentedStatus[LastRequest.status]

\* C3: call with a wait budget of 0 against a job that reports running on
\* every poll issues the creation request and then exactly one poll, and
\* returns a Run with status RUNNING without raising.
C3_CallZeroBudgetPollsOnce ==
    (op = "call" /\ budget = 0 /\ Finished
        /\ requests # <<>> /\ requests[1].ok
        /\ (\A i \in 2..Len(requests) : PollObserved(i, {"running"})))
    => /\ pc = "returned"
       /\ NumPosts = 1
       /\ NumGets = 1
       /\ result # None
       /\ result[1].status = "RUNNING"

----------------------------------------------------------------------------
(* C4: RunClient.wait_for_finish(wait_secs=0) *)

\* C4: wait_for_finish(wait_secs=0) never ends before it has polled and never
\* sleeps; on an existing non-terminal job it issues exactly one GET and
\* returns the Run of that poll, with its non-terminal status, without raising.
C4_RunWaitZeroBudgetPollsOnce ==
    (op = "wait_for_finish" /\ budget = 0)
    => /\ Finished => NumGets = 1
       /\ pc # "sleep"
       /\ sleeps = <<>>
       /\ (requests # <<>> /\ PollObserved(1, ServerStatuses \ DocumentedTerminal))
          => /\ Len(requests) = 1
             /\ ReturnedRunOfLastRequest
             /\ result[1].status \in {"READY", "RUNNING"}
             /\ result[1].status =
                    IF requests[1].status = "pending" THEN "READY" ELSE "RUNNING"

C4_Witness ==
    /\ op = "wait_for_finish"
    /\ budget = 0
    /\ pc = "returned"
    /\ Len(requests) = 1
    /\ PollObserved(1, {"running"})
    /\ result # None
    /\ result[1].status = "RUNNING"
    /\ now = 0

----------------------------------------------------------------------------
(* C5: the backoff law *)

\* the sleep durations 2, 3, 4.5, 6.75 in ticks
FirstSleeps ==
    << 2 * TicksPerSecond, 3 * TicksPerSecond,
       (9 * TicksPerSecond) \div 2, (27 * TicksPerSecond) \div 4 >>

\* C5: in the wait loops of the actor client and of the run client the first
\* sleep lasts 2 and every later sleep lasts min(previous * 1.5, 30): the
\* sleeps begin 2, 3, 4.5, 6.75, never decrease and never exceed 30, and the
\* interval kept for the next sleep obeys the same law.
C5_BackoffLaw ==
    (op \in {"call", "wait_for_finish"})
    => /\ \A n \in 1..Len(sleeps) :
            /\ n <= Len(FirstSleeps) => sleeps[n] = FirstSleeps[n]
            /\ sleeps[n] <= MAX_POLL_INTERVAL
            /\ n < Len(sleeps) =>
                /\ 2 * sleeps[n + 1] = Min(3 * sleeps[n], 2 * MAX_POLL_INTERVAL)
                /\ sleeps[n + 1] >= sleeps[n]
       /\ sleeps = <<>> => poll_interval = 2 * TicksPerSecond
       /\ sleeps # <<>> =>
            2 * poll_interval = Min(3 * sleeps[Len(sleeps)], 2 * MAX_POLL_INTERVAL)

\* the actor client has slept long enough for the cap to hold twice
C5_Witness ==
    /\ op = "call"
    /\ Len(sleeps) >= 9
    /\ sleeps[7] < 30 * TicksPerSecond
    /\ sleeps[8] = 30 * TicksPerSecond
    /\ sleeps[9] = 30 * TicksPerSecond

----------------------------------------------------------------------------
(* C6 .. C8: terminal and unrecognized statuses *)

\* C6: for each of the four terminal statuses, the first poll of call or
\* wait_for_finish that observes it is the last request of the wait: the wait
\* has returned, with no further poll and no sleep after that poll (one sleep
\* between polls, none at all when the job was terminal already), and the Run
\* carries the translated status SUCCEEDED, FAILED, ABORTED or TIMED-OUT.
C6_TerminalPollEndsTheWait ==
    (op \in {"call", "wait_for_finish"})
    => \A i \in 1..Len(requests) :
         PollObserved(i, DocumentedTerminal)
         => /\ i = Len(requests)
            /\ ReturnedRunOfLastRequest
            /\ result[1].status = DocumentedStatus[requests[i].status]
            /\ Len(sleeps) = NumGets - 1

\* C7: on every job status of the server vocabulary the client comes to see,
\* the status table of constants.py, JobStatus.to_apify_status and the Run
\* formatters give the documented caller status.
C7_StatusTranslationAgrees ==
    (job # None /\ job[1].status \in JobStatus)
    => LET s == job[1].status
       IN  /\ s \in DOMAIN GOFETCH_TO_APIFY_STATUS
           /\ GOFETCH_TO_APIFY_STATUS[s] = DocumentedStatus[s]
           /\ to_apify_status(s) = DocumentedStatus[s]
           /\ format_as_apify_run(job[1], job[1].scraper_type).status = DocumentedStatus[s]
           /\ format_job_as_apify_run(job[1], job[1].scraper_type).status
                = DocumentedStatus[s]

\* C8: a status string outside the six is translated to RUNNING in every Run
\* derived from it and never ends a wait loop: after a request answered with
\* such a status, a Run is returned only by start, by get, by abort, or by
\* wait_for_finish at its deadline; call goes on to sleep and poll again; and
\* the only exceptions that can follow are about call's budget (TimeoutError
\* once it has elapsed, TypeError when it is None), never about the status.
C8_UnknownStatusIsRunning ==
    LastObserved(ServerStatuses \ JobStatus)
    => /\ pc = "returned"
            => /\ ReturnedRunOfLastRequest
               /\ result[1].status = "RUNNING"
               /\ result[1].exitCode = None
               /\ op \in {"start", "get", "abort", "wait_for_finish"}
               /\ op = "wait_for_finish"
                    => (budget # NoLimit /\ now - start_time >= budget)
       /\ pc = "raised"
            => /\ op = "call"
               /\ IF budget = NoLimit
                  THEN exc = Some(ClientError("TypeError"))
                  ELSE /\ exc = Some(ClientError("TimeoutError"))
                       /\ now - start_time >= budget
       /\ ~Finished => pc \in {"loop", "sleep", "poll"}

\* call has polled a job with an unrecognized status and then polled again
C8_Witness ==
    /\ op = "call"
    /\ Len(requests) >= 3
    /\ PollObserved(2, {UnknownStatus})
    /\ requests[3].method = "GET"
    /\ Len(sleeps) >= 1

----------------------------------------------------------------------------
(* C9, C10: the 404 asymmetry *)

\* C9: in RunClient.get and RunClient.wait_for_finish a poll answered with an
\* error is the last request: on 404 (first poll or later) None is returned,
\* on any other error that error is raised unchanged.
C9_RunLookupAbsenceIsNone ==
    (op \in {"get", "wait_for_finish"})
    => \A i \in 1..Len(requests) :
         ~requests[i].ok
         => /\ i = Len(requests)
            /\ IF requests[i].code = 404
               THEN pc = "returned" /\ result = None /\ exc = None
               ELSE pc = "raised" /\ exc = Some(TransportError(requests[i].code))

\* wait_for_finish returned None on a 404 that a later poll met
C9_Witness ==
    /\ op = "wait_for_finish"
    /\ Len(requests) >= 2
    /\ requests[1].ok
    /\ ~LastRequest.ok
    /\ LastRequest.code = 404
    /\ pc = "returned"
    /\ result = None

\* C10: in call and start the creation POST is the first request and the only
\* POST, so it precedes every poll; when it fails, with 404 or any other
\* error, that error is raised unchanged, no Run is returned and no GET issued.
C10_CreationFailurePropagates ==
    (op \in {"call", "start"})
    => /\ \A i \in 1..Len(requests) : (requests[i].method = "POST") <=> (i = 1)
       /\ pc \notin {"create"} => requests # <<>>
       /\ (requests # <<>> /\ ~requests[1].ok)
          => /\ Len(requests) = 1
             /\ pc = "raised"
             /\ exc = Some(TransportError(requests[1].code))
             /\ result = None

\* call raised the 404 its creation request met
C10_Witness ==
    /\ op = "call"
    /\ pc = "raised"
    /\ Len(requests) = 1
    /\ requests[1].method = "POST"
    /\ requests[1].code = 404
    /\ exc = Some(TransportError(404))

----------------------------------------------------------------------------
(* C11, C12: ActorClient.start *)

\* C11: ActorClient.start never polls: it issues exactly one creation POST and
\* no GET, never sleeps and never enters the wait loop, and when the creation
\* is answered it returns the Run derived from that answer (READY when the
\* server answers pending).
C11_StartNeverPolls ==
    (op = "start")
    => /\ NumGets = 0
       /\ sleeps = <<>>
       /\ pc \in {"create", "returned", "raised"}
       /\ Finished => (Len(requests) = 1 /\ requests[1].method = "POST")
       /\ (requests # <<>> /\ requests[1].ok)
          => /\ ReturnedRunOfLastRequest
             /\ result[1].id = requests[1].id
             /\ requests[1].status = "pending" => result[1].status = "READY"

\* start returned READY on a creation answered with pending
C11_Witness ==
    /\ op = "start"
    /\ pc = "returned"
    /\ Len(requests) = 1
    /\ requests[1].ok
    /\ requests[1].status = "pending"
    /\ result # None
    /\ result[1].status = "READY"

\* the documented translation of a caller event name in a per-call webhook
DocumentedServerEvent(e) ==
    CASE e = "ACTOR.RUN.SUCCEEDED" -> "job.completed"
      [] e = "ACTOR.RUN.FAILED" -> "job.failed"
      [] e = "ACTOR.RUN.TIMED_OUT" -> "job.timed_out"
      [] OTHER -> e

\* the webhooks list the creation body is documented to carry
DocumentedBodyWebhooks(hooks) ==
    [i \in 1..Len(hooks) |->
        [url |-> hooks[i].request_url,
         events |-> [k \in 1..Len(hooks[i].event_types) |->
                        DocumentedServerEvent(hooks[i].event_types[k])]]]

\* C12: when start is given per-call webhooks, the body of the creation POST
\* contains a webhooks list with one entry per supplied webhook, in order,
\* whose url is the supplied request_url and whose events are the supplied
\* event types translated caller->server, unknown names passed through.
C12_WebhooksInCreationBody ==
    (op = "start" /\ webhooks # None /\ post_body # None)
    => /\ "webhooks" \in DOMAIN post_body[1]
       /\ post_body[1].webhooks = DocumentedBodyWebhooks(webhooks[1])

----------------------------------------------------------------------------
(* C13: RunClient.abort *)

\* C13 as stated: whenever the cancel request answers 404 and no request meets
\* any other error, abort returns a Run and does not raise.
C13_AbortNeverRaisesOnNotFound ==
    (op = "abort" /\ Finished
        /\ requests # <<>> /\ ~requests[1].ok /\ requests[1].code = 404
        /\ (\A i \in 1..Len(requests) : ~requests[i].ok => requests[i].code = 404))
    => (pc = "returned" /\ result # None)

\* C13, amended: abort issues the cancel POST first. If it is answered, abort
\* returns the Run translated from that answer (ABORTED for a job cancelled
\* now or earlier). If it fails with anything but 404 that error is raised. If
\* it fails with 404, abort issues one GET for the job: when the GET is
\* answered abort returns the Run of the job's current state, and when the GET
\* fails (with 404 for a job that is gone, or any other error) that error is
\* raised.
C13_AbortFallsBackToLookup ==
    (op = "abort")
    => /\ Len(requests) <= 2
       /\ requests # <<>> => requests[1].method = "POST"
       /\ ~Finished => pc = (IF requests = <<>> THEN "cancel" ELSE "fallback")
       /\ (Finished /\ requests[1].ok)
          => /\ Len(requests) = 1
             /\ ReturnedRunOfLastRequest
             /\ result[1].status = DocumentedStatus[requests[1].status]
             /\ requests[1].status \in DocumentedTerminal
       /\ (requests # <<>> /\ ~requests[1].ok /\ requests[1].code # 404)
          => /\ Len(requests) = 1
             /\ pc = "raised"
             /\ exc = Some(TransportError(requests[1].code))
       /\ (Finished /\ ~requests[1].ok /\ requests[1].code = 404)
          => /\ Len(requests) = 2
             /\ requests[2].method = "GET"
             /\ IF requests[2].ok
                THEN /\ ReturnedRunOfLastRequest
                     /\ result[1].status =
                            DictGet(DocumentedStatus, requests[2].status, "RUNNING")
                ELSE /\ pc = "raised"
                     /\ exc = Some(TransportError(requests[2].code))

\* abort met 404 on the cancel of a completed job and returned its state
C13_Witness ==
    /\ op = "abort"
    /\ pc = "returned"
    /\ Len(requests) = 2
    /\ ~requests[1].ok
    /\ requests[1].code = 404
    /\ requests[2].ok
    /\ result # None
    /\ result[1].status = "SUCCEEDED"

----------------------------------------------------------------------------
(* C14: the shape of a Run *)

\* C14: every Run returned by call, start, get, wait_for_finish or abort has
\* id and defaultDatasetId equal to the job's id, actId 'gofetch/' followed by
\* the job type, exitCode 0 if and only if its status is SUCCEEDED (None
\* otherwise), and holds under _gofetch_job the job record it was derived
\* from, which is the answer to the last request.
C14_RunShape ==
    (pc = "returned" /\ result # None)
    => /\ op \in {"call", "start", "get", "wait_for_finish", "abort"}
       /\ LastRequest.ok
       /\ job # None
       /\ LET r == result[1]
              j == job[1]
          IN  /\ j = JobRecord(LastRequest.id, LastRequest.status, j.scraper_type)
              /\ r.gofetch_job = j
              /\ r.id = j.id
              /\ r.defaultDatasetId = j.id
              /\ r.actId = <<"gofetch", j.scraper_type>>
              /\ r.exitCode = (IF r.status = "SUCCEEDED" THEN Some(0) ELSE None)
              /\ r.exitCode \in {Some(0), None}

\* call returned a Run of a cancelled job, with no exit code
C14_Witness ==
    /\ op = "call"
    /\ pc = "returned"
    /\ result # None
    /\ result[1].status = "ABORTED"
    /\ result[1].exitCode = None
    /\ result[1].id = "job-1"
    /\ result[1].defaultDatasetId = "job-1"

----------------------------------------------------------------------------
(* C15: pagination *)

\* the rows among the yielded items, without the runId the reader adds
YieldedRows == [i \in 1..Len(yielded) |-> [row |-> yielded[i].row]]

\* ceil(n / p)
CeilDiv(n, p) == (n + p - 1) \div p

\* C15: pagination completeness: iterate_items() and list_items() called
\* without offset or limit, over a result set of N rows served in pages of
\* size P, end having returned exactly those N rows in server order, none
\* duplicated or skipped, after ceil(N/P) requests to the results endpoint,
\* and the paging loop makes no request beyond those.
C15_PaginationCompleteness ==
    (d_op \in {"iterate_items", "list_items"} /\ arg_offset = 0 /\ arg_limit = None)
    => /\ Len(page_requests) <= CeilDiv(Len(rows), Min(DEFAULT_PAGE_SIZE, page_cap))
       /\ d_pc = "done"
          => /\ YieldedRows = rows
             /\ Len(page_requests) = CeilDiv(Len(rows), Min(DEFAULT_PAGE_SIZE, page_cap))

----------------------------------------------------------------------------
(* C16 .. C18: webhooks *)

CallerEvents ==
    {"ACTOR.RUN.CREATED", "ACTOR.RUN.RUNNING", "ACTOR.RUN.SUCCEEDED",
     "ACTOR.RUN.FAILED", "ACTOR.RUN.TIMED_OUT", "ACTOR.RUN.ABORTED"}

ServerEvents ==
    {"job.created", "job.started", "job.progress", "job.completed",
     "job.failed", "job.timed_out", "job.cancelled"}

\* a server event name after the trip server -> caller -> server
Canonical(e) == IF e = "job.progress" THEN "job.started" ELSE e

WebhookReturned == w_pc = "returned" /\ w_result # None

\* C16: webhook event translation round trip. caller->server->caller is the
\* identity on each of the six caller event names, ACTOR.RUN.RUNNING going to
\* job.started; server->caller->server is the identity on every server event
\* name except job.progress, which comes back as job.started. This holds of
\* the two tables and of what the clients do with them: create and update
\* answer with the event types they were given, having sent server names, and
\* the event types get returns translate back to the stored names, job.progress
\* excepted.
C16_EventRoundTrip ==
    /\ \A e \in CallerEvents :
         /\ APIFY_TO_GOFETCH_EVENTS[e] \in ServerEvents
         /\ GOFETCH_TO_APIFY_EVENTS[APIFY_TO_GOFETCH_EVENTS[e]] = e
    /\ APIFY_TO_GOFETCH_EVENTS["ACTOR.RUN.RUNNING"] = "job.started"
    /\ \A e \in ServerEvents :
         /\ GOFETCH_TO_APIFY_EVENTS[e] \in CallerEvents
         /\ APIFY_TO_GOFETCH_EVENTS[GOFETCH_TO_APIFY_EVENTS[e]] = Canonical(e)
    /\ (w_op \in {"create", "update"} /\ WebhookReturned /\ w_args.event_types # None)
       => /\ w_result[1].eventTypes = w_args.event_types[1]
          /\ \A k \in 1..Len(w_request[1].body[1].events) :
                /\ w_request[1].body[1].events[k] \in ServerEvents
                /\ w_args.event_types[1][k] = "ACTOR.RUN.RUNNING"
                     => w_request[1].body[1].events[k] = "job.started"
    /\ (w_op = "get" /\ WebhookReturned)
       => /\ Len(w_result[1].eventTypes) = Len(Stored(w_id).events)
          /\ \A k \in 1..Len(w_result[1].eventTypes) :
                ToGofetchEvents(w_result[1].eventTypes)[k]
                    = Canonical(Stored(w_id).events[k])

\* get returned the event types of a webhook that listens to job.progress
C16_Witness ==
    /\ w_op = "get"
    /\ WebhookReturned
    /\ Stored(w_id).events = <<"job.created", "job.started", "job.progress">>
    /\ w_result[1].eventTypes
         = <<"ACTOR.RUN.CREATED", "ACTOR.RUN.RUNNING", "ACTOR.RUN.RUNNING">>

\* C17: webhook absence is not an error on lookup or delete: when the server
\* answers 404, WebhookClient.get returns None and WebhookClient.delete
\* returns normally, so deleting a webhook that is not registered (a second
\* delete) never raises; any other error from either operation is raised.
C17_WebhookAbsenceIsNotAnError ==
    (w_op \in {"get", "delete"} /\ w_request # None)
    => /\ ~w_request[1].ok
          => IF w_request[1].code = 404
             THEN w_pc = "returned" /\ w_result = None /\ w_exc = None
             ELSE w_pc = "raised" /\ w_exc = Some(TransportError(w_request[1].code))
       /\ w_pc = "raised" => (~w_request[1].ok /\ w_request[1].code # 404)
       /\ (w_op = "delete" /\ w_pc = "returned") => ~Registered(w_id)

\* delete returned normally on the 404 of a webhook that is not registered
C17_Witness ==
    /\ w_op = "delete"
    /\ w_id = "wh-1"
    /\ created = 1
    /\ ~Registered("wh-1")
    /\ w_request # None
    /\ ~w_request[1].ok
    /\ w_request[1].code = 404
    /\ w_pc = "returned"

\* what each webhook operation that was answered leaves, against the store
WebhookAnswerMatchesStore ==
    /\ (w_op = "create" /\ WebhookReturned)
       => LET id == w_result[1].id
          IN  /\ Registered(id)
              /\ Stored(id).url = w_args.request_url[1]
              /\ Stored(id).is_active = w_args.is_active[1]
              /\ w_args.event_types[1] = <<"ACTOR.RUN.SUCCEEDED", "ACTOR.RUN.FAILED">>
                   => Stored(id).events = <<"job.completed", "job.failed">>
              /\ w_result[1].requestUrl = w_args.request_url[1]
              /\ w_result[1].eventTypes = w_args.event_types[1]
    /\ (w_op = "list" /\ WebhookReturned)
       => /\ w_result[1].count = Len(registry)
          /\ Len(w_result[1].items) = Len(registry)
          /\ \A i \in 1..Len(registry) :
                /\ w_result[1].items[i].id = registry[i].id
                /\ w_result[1].items[i].requestUrl = registry[i].url
                /\ w_result[1].items[i].isActive = registry[i].is_active
                /\ registry[i].events = <<"job.completed", "job.failed">>
                     => w_result[1].items[i].eventTypes
                            = <<"ACTOR.RUN.SUCCEEDED", "ACTOR.RUN.FAILED">>
    /\ (w_op = "get" /\ w_pc = "returned")
       => IF Registered(w_id)
          THEN /\ w_result # None
               /\ w_result[1].id = w_id
               /\ w_result[1].requestUrl = Stored(w_id).url
               /\ w_result[1].isActive = Stored(w_id).is_active
               /\ Stored(w_id).events = <<"job.completed", "job.failed">>
                    => w_result[1].eventTypes
                           = <<"ACTOR.RUN.SUCCEEDED", "ACTOR.RUN.FAILED">>
          ELSE w_result = None
    /\ (w_op = "update" /\ WebhookReturned)
       => /\ Registered(w_id)
          /\ w_args.request_url # None
               => /\ Stored(w_id).url = w_args.request_url[1]
                  /\ w_result[1].requestUrl = w_args.request_url[1]
          /\ w_args.is_active # None
               => /\ Stored(w_id).is_active = w_args.is_active[1]
                  /\ w_result[1].isActive = w_args.is_active[1]
          /\ w_args.event_types # None
               => w_result[1].eventTypes = w_args.event_types[1]
    /\ (w_op = "delete" /\ w_pc = "returned") => ~Registered(w_id)

\* what an operation leaves alone in the store: list and get change nothing,
\* an operation that raises changes nothing, update changes no webhook but
\* its own and only in the fields it was given, and delete removes no other
KeepsStore ==
    /\ (w_op' \in {"list", "get"} \/ w_pc' = "raised") => registry' = registry
    /\ \A id \in WebhookIds :
         (Registered(id) /\ ~(w_op' \in {"update", "delete"} /\ w_id' = id))
         => (Registered(id)' /\ Stored(id)' = Stored(id))
    /\ \A id \in WebhookIds :
         (Registered(id) /\ w_op' = "update" /\ w_id' = id)
         => /\ Registered(id)'
            /\ w_args'.event_types = None => Stored(id)'.events = Stored(id).events
            /\ w_args'.request_url = None => Stored(id)'.url = Stored(id).url
            /\ w_args'.is_active = None => Stored(id)'.is_active = Stored(id).is_active

----------------------------------------------------------------------------
(* C19, C20: the transport *)

\* a field of the JSON body of a response, <<>> when the body is not a JSON
\* object or lacks the field
BodyField(r, k) ==
    IF r.json # None /\ k \in DOMAIN r.json[1] THEN Some(r.json[1][k]) ELSE None

\* the retry-after of a 429: the number in the Retry-After header when there
\* is one (an absent, non-numeric or zero header gives none), else the body's
DocumentedRetryAfter(r) ==
    IF r.retry_after_header \in {Some("30")}
    THEN Some(30)
    ELSE BodyField(r, "retry_after")

\* the exception the last response was turned into: the one raised, or the
\* one kept in last_exception when the attempt is retried
MappedException == IF t_pc = "raised" THEN t_exc[1] ELSE last_exception[1]

NetworkFailures == {"ConnectError", "TimeoutException"}

\* attempt i met a failure or a response after which _request tries again
RetriedKind(i) ==
    \/ attempts[i].kind \in NetworkFailures
    \/ attempts[i].kind = "response" /\ attempts[i].status_code = 429

\* C20: transport retry policy: one request makes at most max_retries + 1
\* attempts; an attempt is followed by another only if it met a connection or
\* timeout failure or a 429; any other error response is the last attempt and
\* is raised at once, with no sleep after it (so after exactly one attempt and
\* no sleep when it answers the first attempt); a successful response is the
\* last attempt and is returned at once; and when every attempt met a network
\* failure, max_retries + 1 attempts were made and an APIError with
\* status_code 0 is raised.
C20_RetryPolicy ==
    /\ Len(attempts) <= max_retries + 1
    /\ Len(t_sleeps) <= max_retries
    /\ t_pc = "attempt" => Len(attempts) = attempt /\ attempt <= max_retries
    /\ \A i \in 1..Len(attempts) :
         /\ i < Len(attempts) => RetriedKind(i)
         /\ (attempts[i].kind = "response" /\ attempts[i].status_code >= 400
                /\ attempts[i].status_code # 429)
            => /\ i = Len(attempts)
               /\ t_pc = "raised"
               /\ t_exc[1].status_code = attempts[i].status_code
               /\ Len(t_sleeps) = i - 1
         /\ (attempts[i].kind = "response" /\ attempts[i].status_code < 400)
            => /\ i = Len(attempts)
               /\ t_pc = "returned"
               /\ t_result # None
               /\ Len(t_sleeps) = i - 1
    /\ (t_pc = "raised" /\ \A i \in 1..Len(attempts) : attempts[i].kind \in NetworkFailures)
       => /\ Len(attempts) = max_retries + 1
          /\ t_exc[1].type = "APIError"
          /\ t_exc[1].status_code = 0

\* with max_retries 3, four attempts met a network failure and an APIError
\* with status_code 0 was raised after three sleeps
C20_Witness ==
    /\ max_retries = 3
    /\ t_pc = "raised"
    /\ Len(attempts) = 4
    /\ \A i \in 1..4 : attempts[i].kind \in NetworkFailures
    /\ t_sleeps = <<1, 2, 4>>
    /\ t_exc[1].type = "APIError"
    /\ t_exc[1].status_code = 0

----------------------------------------------------------------------------
(* C21: rate limits in the transport *)

\* attempt i was answered with 429
RateLimited(i) == attempts[i].kind = "response" /\ attempts[i].status_code = 429

\* the transport's own delay after n retried attempts: 1, 2, 4, ...
OwnDelay(n) == 2 ^ n

\* the state part: the backoff delay is 1 doubled once per sleep, no sleep
\* follows the final attempt, and exhaustion by 429s raises the RateLimitError
RateLimitState ==
    /\ t_pc # "idle" => retry_delay = OwnDelay(Len(t_sleeps))
    /\ Len(t_sleeps) <= max_retries
    /\ t_pc \in {"raised", "returned"} => Len(t_sleeps) = Len(attempts) - 1
    /\ t_pc = "attempt" => Len(t_sleeps) = Len(attempts)
    /\ (t_pc = "raised" /\ \A i \in 1..Len(attempts) : RateLimited(i))
       => /\ Len(attempts) = max_retries + 1
          /\ t_exc[1].type = "RateLimitError"
          /\ t_exc[1].status_code = 429
          /\ t_exc[1].retry_after = DocumentedRetryAfter(t_response[1])

\* the step part: an attempt answered with 429 is followed by one sleep, of
\* the server's retry-after if it gave one and of the own delay if not,
\* unless it was the final attempt, which is followed by the raise
RateLimitStep ==
    (t_pc = "attempt" /\ Len(attempts') = Len(attempts) + 1
        /\ t_response' # None /\ t_response'[1].status_code = 429)
    => LET suggested == DocumentedRetryAfter(t_response'[1])
       IN  IF Len(attempts') <= max_retries
           THEN /\ t_pc' = "attempt"
                /\ t_sleeps' = Append(t_sleeps,
                                      IF suggested # None THEN suggested[1]
                                      ELSE OwnDelay(Len(t_sleeps)))
           ELSE /\ t_pc' = "raised"
                /\ t_sleeps' = t_sleeps
                /\ t_exc'[1].type = "RateLimitError"

----------------------------------------------------------------------------
(* C22: the two variants of a wait *)

IsPrefix(a, b) == Len(a) <= Len(b) /\ SubSeq(b, 1, Len(a)) = a

\* neither trace departs from the other
Agree(a, b) == IsPrefix(a, b) \/ IsPrefix(b, a)

Ended(c) == c.pc \in {"returned", "raised"}

\* C22: blocking and cooperative modes are equivalent: against the same
\* sequence of server answers and with the same wait budget the sync and the
\* async variant of a wait issue the same sequence of requests, sleep the same
\* sequence of durations, and end with the same result or the same exception.
C22_ModesEquivalent ==
    /\ Agree(sync_ctl.requests, async_ctl.requests)
    /\ Agree(sync_ctl.sleeps, async_ctl.sleeps)
    /\ (Len(sync_ctl.requests) = Len(async_ctl.requests)
        /\ Len(sync_ctl.sleeps) = Len(async_ctl.sleeps)
        /\ (Ended(sync_ctl) <=> Ended(async_ctl)))
       => sync_ctl = async_ctl
    /\ (Ended(sync_ctl) /\ Ended(async_ctl)) => sync_ctl = async_ctl

\* both variants of call returned the same Run: they created the job, polled
\* it running, slept the first interval and polled it completed
C22_Witness ==
    /\ m_class = "actor"
    /\ sync_ctl.pc = "returned"
    /\ async_ctl.pc = "returned"
    /\ sync_ctl.result # None
    /\ sync_ctl.result = async_ctl.result
    /\ async_ctl.result[1].status = "SUCCEEDED"
    /\ Len(async_ctl.requests) = 3
    /\ async_ctl.sleeps = <<DEFAULT_POLL_INTERVAL>>

----------------------------------------------------------------------------
(* C23: the wait without a limit *)

\* a wait with no limit that has ended with every request answered
EndedWithoutFailure ==
    /\ Finished
    /\ \A i \in 1..Len(requests) : requests[i].ok

\* what a wait of operation o with no limit keeps to: a Run is returned only
\* from a poll that saw a terminal status, and with every request answered the
\* wait ends on such a poll only
NoLimitWaitOf(o) ==
    (op = o /\ budget = NoLimit)
    => /\ (pc = "returned" /\ result # None)
          => /\ ReturnedRunOfLastRequest
             /\ LastRequest.method = "GET"
             /\ LastObserved(DocumentedTerminal)
       /\ EndedWithoutFailure
          => /\ LastRequest.method = "GET"
             /\ LastObserved(DocumentedTerminal)
             /\ ReturnedRunOfLastRequest

\* C23: with a wait budget of "no limit" the wait (call or wait_for_finish)
\* returns a Run only after a poll has observed a terminal status, never a
\* non-terminal snapshot, and it keeps polling for as long as every poll is
\* non-terminal: with every request answered it ends only on a terminal poll,
\* with the Run of that poll.
C23_NoLimitPollsUntilTerminal ==
    NoLimitWaitOf("call") /\ NoLimitWaitOf("wait_for_finish")

\* the part of it that wait_for_finish keeps
C23_RunPart == NoLimitWaitOf("wait_for_finish")

----------------------------------------------------------------------------
(* C24: actor identifiers *)

\* the documented table of legacy identifiers
DocumentedJobType ==
    [u \in {"apify/instagram-scraper", "apify/instagram-profile-scraper",
            "clockworks/tiktok-profile-scraper", "streamers/youtube-scraper",
            "xmolodtsov/reddit-scraper", "xmolodtsov/google-news-scraper"} |->
        CASE u = "apify/instagram-scraper" -> "instagram"
          [] u = "apify/instagram-profile-scraper" -> "instagram_profile"
          [] u = "clockworks/tiktok-profile-scraper" -> "tiktok"
          [] u = "streamers/youtube-scraper" -> "youtube"
          [] u = "xmolodtsov/reddit-scraper" -> "reddit"
          [] u = "xmolodtsov/google-news-scraper" -> "google_news"]

\* C24: client.actor resolves each of the six legacy identifiers to its job
\* type (instagram, instagram_profile, tiktok, youtube, reddit, google_news)
\* and returns every other identifier, native job types included, unchanged.
C24_ActorIdentifierResolution ==
    (u_op = "actor")
    => u_result = IF u_arg \in DOMAIN DocumentedJobType
                  THEN DocumentedJobType[u_arg]
                  ELSE u_arg

----------------------------------------------------------------------------
(* C27: the status of a translated webhook payload *)

\* the status of the payload's data, <<>> when the payload has none
PayloadStatus(payload) ==
    IF "data" \in DOMAIN payload THEN Get(payload["data"], "status") ELSE None

\* C27: transform_webhook_payload translates data.status as Run records
\* translate a job status: each of the six server statuses gives its caller
\* status (timed_out gives TIMED-OUT), a missing or unrecognized status gives
\* RUNNING; and a payload with missing or unknown fields is translated too.
C27_PayloadStatusAsRunStatus ==
    (u_op = "transform_webhook_payload")
    => LET st == PayloadStatus(u_arg)
       IN  u_result.resource.status =
              IF st # None /\ st[1] \in JobStatus
              THEN DocumentedStatus[st[1]]
              ELSE "RUNNING"

----------------------------------------------------------------------------
(* C25: polls and sleeps in turn *)

\* what the wait of operation o keeps to: a sleep is taken only after a poll
\* that was answered with a non-terminal status, the next poll only after that
\* sleep, and the wait does not end on a sleep
AlternatesIn(o) ==
    (op = o)
    => /\ Len(sleeps) <= NumGets
       /\ NumGets <= Len(sleeps) + 1
       /\ pc = "sleep" => /\ NumGets = Len(sleeps) + 1
                          /\ LastRequest.method = "GET"
                          /\ LastObserved(ServerStatuses \ DocumentedTerminal)
       /\ pc \in {"loop", "poll"} => NumGets = Len(sleeps)
       /\ (Finished /\ sleeps # <<>>) => NumGets = Len(sleeps) + 1
       /\ (pc = "returned" /\ result # None) => Len(sleeps) = NumGets - 1

\* C25: within one wait (call or wait_for_finish) polls and sleeps strictly
\* alternate: every sleep directly follows a poll answered with a non-terminal
\* status and is directly followed by another poll, so the wait never ends on
\* a sleep, and a wait that returns a Run after k polls has slept k - 1 times.
C25_PollsAndSleepsAlternate ==
    AlternatesIn("call") /\ AlternatesIn("wait_for_finish")

\* the part of it that wait_for_finish keeps
C25_RunPart == AlternatesIn("wait_for_finish")

----------------------------------------------------------------------------
(* C26, C30: the rows the dataset reader returns *)

\* how many rows a read of (offset, limit) is to return
ExpectedCount ==
    IF arg_offset >= Len(rows) THEN 0
    ELSE IF arg_limit = None THEN Len(rows) - arg_offset
    ELSE Min(arg_limit[1], Len(rows) - arg_offset)

\* rows offset .. offset + min(limit, N - offset) - 1, counted from 0
ExpectedRows == SubSeq(rows, arg_offset + 1, arg_offset + ExpectedCount)

\* C26: the dataset reader returns the rows of a results page whether the
\* server delivers them under the key `results` or under the key `items`:
\* under either key a finished read has returned the rows asked for.
C26_RowsUnderEitherKey ==
    (d_op \in {"iterate_items", "list_items"} /\ d_pc = "done")
    => YieldedRows = ExpectedRows

\* the same with the server delivering under `items`
C26_ItemsPart == items_key = "items" => C26_RowsUnderEitherKey

\* how many rows had been yielded when page request i was made: each earlier
\* page was yielded whole
YieldedBefore(i) == page_requests[i].offset - arg_offset

\* C30: iterate_items(offset=o, limit=L) over N rows yields exactly the rows
\* o .. o + min(L, N - o) - 1 in order, none when L = 0 or o >= N and all rows
\* from o on when L is None, and requests no further page once L rows have
\* been yielded.
C30_OffsetAndLimit ==
    (d_op = "iterate_items")
    => /\ d_pc = "done" => YieldedRows = ExpectedRows
       /\ arg_limit # None
          => \A i \in 1..Len(page_requests) : YieldedBefore(i) < arg_limit[1]

\* the same for a server that delivers under `items` and a limit of 1 or more
C30_ItemsPart ==
    (items_key = "items" /\ arg_limit # None /\ arg_limit[1] >= 1)
    => C30_OffsetAndLimit

----------------------------------------------------------------------------
(* C28: one creation per invocation *)

\* the attempts of the request that reached the server
Deliveries == {i \in 1..Len(attempts) : attempts[i].delivered}

\* the attempts after which the server may hold a new job: a delivered request
\* it did not answer with an error
PossibleCreations ==
    {i \in Deliveries : attempts[i].kind # "response" \/ attempts[i].status_code < 400}

\* C28: one invocation of start or call causes at most one job creation: its
\* creation POST, handed to the transport once, is delivered to the server at
\* most once, also when the transport retries after a timeout, a connection
\* failure or a 429.
C28_CreationDeliveredOnce ==
    (t_method = "POST") => Cardinality(Deliveries) <= 1

\* the same, counting only the deliveries the server did not reject
C28_CreatedOnce ==
    (t_method = "POST") => Cardinality(PossibleCreations) <= 1

----------------------------------------------------------------------------
(* C29: what wait_for_finish returns *)

\* the caller statuses of a job that is not terminal
NonTerminalRunStatuses == {"READY", "RUNNING"}

\* C29: whenever RunClient.wait_for_finish returns a Run whose status is not
\* terminal, wait_secs is not None and at least wait_secs have elapsed since
\* the wait began; and every Run it returns is derived from the answer to the
\* most recent poll, never from an earlier one.
C29_WaitReturnsLatestPoll ==
    (op = "wait_for_finish" /\ pc = "returned" /\ result # None)
    => /\ LastRequest.method = "GET"
       /\ LastRequest.ok
       /\ ReturnedRunOfLastRequest
       /\ result[1] = format_job_as_apify_run(
                          JobRecord(LastRequest.id, LastRequest.status,
                                    job[1].scraper_type),
                          job[1].scraper_type)
       /\ result[1].status \in NonTerminalRunStatuses
          => /\ budget # NoLimit
             /\ now - start_time >= budget

\* wait_for_finish(wait_secs=5) returned RUNNING from its third poll, the
\* first to come back after 5 seconds
C29_Witness ==
    /\ op = "wait_for_finish"
    /\ budget = 5 * TicksPerSecond
    /\ pc = "returned"
    /\ Len(requests) = 3
    /\ Len(sleeps) = 2
    /\ PollObserved(1, {"pending"})
    /\ PollObserved(3, {"running"})
    /\ result # None
    /\ result[1].status = "RUNNING"
    /\ now - start_time >= budget

====
